---------------------------- MODULE AtomicManifest ----------------------------
(***************************************************************************)
(* What a manifest promises its clients: an atomic compare-and-set        *)
(* register.  Each client holds a view, the lock it last learnt.  A client *)
(* learns the current lock at an instant; it replaces the manifest only if *)
(* its view is the current lock, and then knows the new lock or, when the  *)
(* acknowledgement is lost, keeps its old view.                           *)
(***************************************************************************)
CONSTANTS Writers, Locks, EmptyLock, InitialLock, ManifestExists

VARIABLES lock, view

Init ==
    /\ lock = IF ManifestExists THEN InitialLock ELSE EmptyLock
    /\ view = [w \in Writers |-> EmptyLock]

\* The client reads the lock the manifest holds now.
Learn(w) ==
    /\ view' = [view EXCEPT ![w] = lock]
    /\ UNCHANGED lock

\* Compare-and-set from the client's view to the new lock n.
Commit(w, n) ==
    /\ lock = view[w]
    /\ lock' = n
    /\ \/ view' = [view EXCEPT ![w] = n]
       \/ UNCHANGED view

Next == \E w \in Writers : Learn(w) \/ \E n \in Locks : Commit(w, n)

Spec == Init /\ [][Next]_<<lock, view>>

=============================================================================
