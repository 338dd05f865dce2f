-------------------------- MODULE DocumentVersions --------------------------
(***************************************************************************)
(* What the pipeline promises about one file, without runners, rows or     *)
(* indexes: at any moment answers draw on one version of the file or on    *)
(* none; a version is put in service once, when its parse succeeds, and    *)
(* only if it is newer than every version served before; a version taken   *)
(* out of service never returns.  A version is a parse job.                *)
(***************************************************************************)
EXTENDS Naturals

CONSTANTS
    Files,
    Versions   \* positive naturals, in the order they are asked for

VARIABLES
    served,   \* the version answers may use, 0 for none
    newest,   \* the newest version ever put in service
    retired   \* files for which nothing is promised any more

vars == <<served, newest, retired>>

Init ==
    /\ served = [f \in Files |-> 0]
    /\ newest = [f \in Files |-> 0]
    /\ retired = {}

\* A parse of f succeeded: its result replaces what was served.
Publish(f, v) ==
    /\ f \notin retired
    /\ v > newest[f]
    /\ served' = [served EXCEPT ![f] = v]
    /\ newest' = [newest EXCEPT ![f] = v]
    /\ UNCHANGED retired

\* A new parse of f was asked for, or one failed.
Withdraw(f) ==
    /\ f \notin retired
    /\ served' = [served EXCEPT ![f] = 0]
    /\ UNCHANGED <<newest, retired>>

\* f is deleted, or two advances of it overlapped.
Retire(f) ==
    /\ f \notin retired
    /\ retired' = retired \cup {f}
    /\ served' = [served EXCEPT ![f] = 0]
    /\ newest' = [newest EXCEPT ![f] = 0]

Next == \E f \in Files : Withdraw(f) \/ Retire(f) \/ \E v \in Versions : Publish(f, v)

Spec == Init /\ [][Next]_vars
=============================================================================
