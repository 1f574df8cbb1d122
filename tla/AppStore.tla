---- MODULE AppStore ----
(***************************************************************************)
(* The application store: two Flash pages written by app_write, half-word  *)
(* by half-word, looked through by app_scan at boot, and executed in place *)
(* by the virtual machine (halaos_runtime.c, task_vm in halaos_tasks.c).   *)
(*                                                                         *)
(* app_write runs inside one system call, so no task runs between its      *)
(* half-words; power may be lost between any two of them.                  *)
(***************************************************************************)
EXTENDS Integers

CONSTANTS
    Bytecode,       \* applications of APP_TYPE_BYTECODE that the verifier accepts
    Demos,          \* applications of the other types
    HeaderWords,    \* half-words of the header after the status
    CodeWords,      \* half-words of the code of a bytecode application
    MaxSequence,    \* bound: the last sequence number written
    None

Apps == Bytecode \union Demos
Slots == {0, 1}                 \* APP_SLOT_COUNT = 2
\* The package of a demo is one half-word: its type and HALT.
Words(app) == HeaderWords + (IF app \in Demos THEN 1 ELSE CodeWords)

ASSUME StoreAssumption ==
    /\ HeaderWords \in Nat \ {0} /\ CodeWords \in Nat \ {0} /\ MaxSequence \in Nat
    /\ Bytecode \cap Demos = {}
    /\ None \notin Apps \union Slots
    /\ None \notin [app : Apps, seq : Nat, slot : Slots, at : Nat]

VARIABLES
    page,       \* the two pages of Flash
    writing,    \* app_write in progress, or None
    valid, slot, count,     \* g_app_valid, g_app_slot, g_compile_count
    type,       \* g_app_type, the application whose type it is
    fail,       \* g_app_fail_stage
    running,    \* g_app_running
    burst,      \* the slot task_vm executes from, -1 at the head of its loop
    active,     \* active_sequence
    began       \* history: what the page held when the burst began; compiles since (2: or more)

vars == <<page, writing, valid, slot, count, type, fail, running, burst, active, began>>
ram == <<valid, slot, count, type, fail, running>>
vm == <<burst, active, began>>

(***************************************************************************)
(* Flash.  Programming only clears bits.  The three statuses, and erased   *)
(* Flash, clear more and more of them: 16#FFFF, 16#7FFF, 16#3FFF, 16#1FFF. *)
(***************************************************************************)
ERASED == 0   WRITING == 1   VERIFYING == 2   VALID == 3
Blank == [status |-> ERASED, app |-> None, seq |-> 0, words |-> 0]
Program(old, new) == IF new > old THEN new ELSE old

\* app_verify_slot: the status, then the header and the checksum of the code,
\* which match only when every half-word has been programmed.
Verified(s) == page[s].status = VALID /\ page[s].app # None /\ page[s].words = Words(page[s].app)

\* The slot app_scan chooses: the higher sequence number, the lower slot of equals.
Best ==
    LET good == {s \in Slots : Verified(s)}
    IN  IF good = {} THEN None
        ELSE CHOOSE s \in good : \A r \in good :
                page[s].seq > page[r].seq \/ (page[s].seq = page[r].seq /\ s <= r)

NoBurst == [app |-> None, seq |-> 0, compiles |-> 0]

Init ==
    /\ page = [s \in Slots |-> Blank] /\ writing = None
    /\ valid = FALSE /\ slot = 0 /\ count = 0 /\ type = None /\ fail = 0 /\ running = FALSE
    /\ burst = -1 /\ active = 0 /\ began = NoBurst
-----------------------------------------------------------------------------
(* app_write.  writing.at counts what it does to Flash: the erase, the      *)
(* status WRITING, header and code, VERIFYING, VALID.                      *)

\* Mutant: the slot is the one that is in use.
TargetSlot_used(seq) == slot

TargetSlot(seq) == seq % 2

WriteBegin(app) ==
    /\ writing = None /\ count < MaxSequence
    /\ writing' = [app |-> app, seq |-> count + 1, slot |-> TargetSlot(count + 1), at |-> 0]
    /\ began' = [began EXCEPT !.compiles = IF burst = -1 THEN 0 ELSE IF @ < 2 THEN @ + 1 ELSE @]
    /\ UNCHANGED <<page, ram, burst, active>>

\* Positions of VERIFYING and VALID.
Verify(app) == Words(app) + 2
Commit(app) == Words(app) + 3

\* Mutant: VALID is programmed in place of WRITING.
Written_validfirst(p) ==
    CASE writing.at = 0 -> Blank
      [] writing.at = 1 -> [p EXCEPT !.status = VALID, !.app = writing.app, !.seq = writing.seq,
                                     !.words = Words(writing.app)]
      [] OTHER -> p

\* What the next operation makes of a page.
Written(p) ==
    CASE writing.at = 0 -> Blank
      [] writing.at = 1 -> [p EXCEPT !.status = Program(@, WRITING)]
      [] writing.at = Verify(writing.app) -> [p EXCEPT !.status = Program(@, VERIFYING)]
      [] writing.at = Commit(writing.app) -> [p EXCEPT !.status = Program(@, VALID)]
      [] OTHER -> [p EXCEPT !.words = @ + 1, !.app = writing.app, !.seq = writing.seq]

\* The failure injected after the operation at this position.
Stops(at) ==
    \/ fail = 1 /\ at = 0
    \/ fail = 2 /\ at = HeaderWords + 1
    \/ fail = 3 /\ at = HeaderWords + 3 /\ at < Verify(writing.app)
    \/ fail = 4 /\ at = Verify(writing.app)

FlashStep ==
    /\ writing # None /\ writing.at <= Commit(writing.app)
    /\ page' = [page EXCEPT ![writing.slot] = Written(@)]
    /\ writing' = IF Stops(writing.at) THEN None ELSE [writing EXCEPT !.at = @ + 1]
    /\ UNCHANGED <<ram, vm>>

\* Mutant: the counter is left as it is.
WriteReturn_samecount ==
    /\ writing # None /\ writing.at = Commit(writing.app) + 1
    /\ slot' = writing.slot /\ type' = writing.app
    /\ valid' = TRUE /\ fail' = 0 /\ writing' = None
    /\ UNCHANGED <<page, count, running, vm>>

\* RAM follows, after the last half-word.
WriteReturn ==
    /\ writing # None /\ writing.at = Commit(writing.app) + 1
    /\ count' = writing.seq /\ slot' = writing.slot /\ type' = writing.app
    /\ valid' = TRUE /\ fail' = 0 /\ writing' = None
    /\ UNCHANGED <<page, running, vm>>
-----------------------------------------------------------------------------
(* Power, the boot's app_scan, and the shell's commands.                   *)

\* What a page may hold when power goes during its erase: status bits back at 1,
\* or the status as it was and a rest that does not match its checksum.
Torn(p) == {[p EXCEPT !.status = st] : st \in 0..p.status}
           \union {[Blank EXCEPT !.status = p.status]}

\* Power is lost; the next boot scans both slots.
PowerLoss ==
    /\ IF writing # None /\ writing.at = 0
       THEN \E p \in Torn(page[writing.slot]) : page' = [page EXCEPT ![writing.slot] = p]
       ELSE UNCHANGED page
    /\ valid' = (Best' # None)
    /\ slot' = IF Best' = None THEN 0 ELSE Best'
    /\ count' = IF Best' = None THEN 0 ELSE page'[Best'].seq
    /\ type' = IF Best' = None THEN None ELSE page'[Best'].app
    /\ writing' = None /\ fail' = 0 /\ running' = FALSE
    /\ burst' = -1 /\ active' = 0 /\ began' = NoBurst

AppFail(stage) ==
    /\ writing = None /\ fail = 0 /\ fail' = stage
    /\ UNCHANGED <<page, writing, valid, slot, count, type, running, vm>>

\* SVC_APP_RUN; demo_start takes the type from the header.
AppRun ==
    /\ writing = None /\ valid /\ Verified(slot)
    /\ running' = TRUE /\ type' = page[slot].app
    /\ UNCHANGED <<page, writing, valid, slot, count, fail, vm>>

AppStop ==
    /\ writing = None /\ running /\ running' = FALSE
    /\ UNCHANGED <<page, writing, valid, slot, count, type, fail, vm>>
-----------------------------------------------------------------------------
(* task_vm: a burst of up to 64 instructions from the slot in use when it  *)
(* begins.  Inside it the machine may sleep (output waits while somebody   *)
(* types), so commands and compiles happen during a burst.                 *)

VmLook ==
    /\ writing = None /\ burst = -1
    /\ IF running /\ valid /\ Verified(slot) /\ type \in Bytecode
       THEN /\ burst' = slot /\ active' = page[slot].seq
            /\ began' = [app |-> page[slot].app, seq |-> page[slot].seq, compiles |-> 0]
       ELSE active' = 0 /\ UNCHANGED <<burst, began>>
    /\ UNCHANGED <<page, writing, ram>>

\* The budget is used up, SLEEP, or g_app_running is seen to be 0.
VmBurstEnds ==
    /\ writing = None /\ burst # -1 /\ burst' = -1 /\ began' = NoBurst
    /\ UNCHANGED <<page, writing, ram, active>>

\* HALT, a trap, or erased Flash, which reads as HALT.
VmExits ==
    /\ writing = None /\ burst # -1 /\ running
    /\ running' = FALSE /\ burst' = -1 /\ began' = NoBurst
    /\ UNCHANGED <<page, writing, valid, slot, count, type, fail, active>>
-----------------------------------------------------------------------------
AppWrite == (\E app \in Apps : WriteBegin(app)) \/ FlashStep \/ WriteReturn

Next ==
    \/ AppWrite \/ PowerLoss
    \/ (\E stage \in 1..4 : AppFail(stage)) \/ AppRun \/ AppStop
    \/ VmLook \/ VmBurstEnds \/ VmExits

Spec == Init /\ [][Next]_vars
-----------------------------------------------------------------------------
(* Properties.                                                             *)

\* Types and ranges.
TypeOK ==
    /\ page \in [Slots -> [status : 0..3, app : Apps \union {None},
                           seq : 0..MaxSequence, words : 0..HeaderWords+CodeWords]]
    /\ \/ writing = None
       \/ writing \in [app : Apps, seq : 1..MaxSequence, slot : Slots, at : 0..HeaderWords+CodeWords+4]
    /\ valid \in BOOLEAN /\ slot \in Slots /\ count \in 0..MaxSequence
    /\ type \in Apps \union {None} /\ fail \in 0..4 /\ running \in BOOLEAN
    /\ burst \in Slots \union {-1} /\ active \in 0..MaxSequence
    /\ began \in [app : Apps \union {None}, seq : 0..MaxSequence, compiles : 0..2]

\* The contract of app_write: one application is installed at every moment, also
\* between two half-words; it changes in one step, to the new one, with the next
\* sequence number, and losing power changes nothing.
Store == INSTANCE AtomicStore WITH
    installed <- IF Best = None THEN None ELSE page[Best].app,
    version <- IF Best = None THEN 0 ELSE page[Best].seq
ReplacesAtomically == Store!Spec

\* Outside app_write RAM names what the next boot would find, whatever writes failed
\* before: nobody has to restart to get the same application.
RamAgreesWithFlash ==
    writing = None =>
        /\ valid = (Best # None)
        /\ valid => slot = Best /\ count = page[slot].seq

\* RAM and Flash, wherever a compile fails.
StoreSound == TypeOK /\ RamAgreesWithFlash

\* The slot a burst executes from outlives one compile, failed or not: the machine
\* never executes half of one application and half of another because of it.
BurstKeepsItsCode ==
    burst # -1 /\ began.compiles <= 1 =>
        /\ Verified(burst)
        /\ page[burst].app = began.app /\ page[burst].seq = began.seq
====
