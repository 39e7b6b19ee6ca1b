-------------------------- MODULE BlobstoreManifest --------------------------
(***************************************************************************)
(* The manifest of a noms block store kept in a blobstore                 *)
(* (nbs.blobstoreManifest, part_002).  The manifest is one object whose   *)
(* contents are identified by their lock hash; the blobstore gives every  *)
(* write of the object a new version and offers a version-conditional put *)
(* (CheckAndPut).                                                          *)
(*                                                                         *)
(* Update is not atomic: it reads the object (Get, manifestVersionAndContents) *)
(* and, if the lock it read is the caller's lastLock, later puts the new  *)
(* contents conditioned on the version it read.  Other writers may write  *)
(* in between; the blobstore's version check is what keeps them apart.    *)
(* Every blobstore call may also fail with an I/O error.  A put that      *)
(* fails with an I/O error may or may not have been applied.              *)
(*                                                                         *)
(* Each writer stands for a client of the manifest that holds the lock it  *)
(* last saw (upstream): it learns it from ParseIfExists or from what       *)
(* Update returns, and passes it to Update as lastLock.                   *)
(***************************************************************************)
EXTENDS Naturals, FiniteSets

CONSTANTS
    Writers,         \* clients updating the same manifest
    Locks,           \* lock hashes of manifest contents (model values)
    InitialLock,     \* the lock of the manifest present at start, if any
    EmptyLock,       \* the zero lock of empty manifestContents{}
    ManifestExists   \* whether a manifest object exists at start

ASSUME InitialLock \in Locks /\ EmptyLock \notin Locks

VARIABLES
    store,      \* the blobstore object "manifest": [exists, ver, lock]
    pc,         \* per writer: "idle", or "put" between Get and CheckAndPut
    lastLock,   \* per writer: the lastLock argument of its Update
    newLock,    \* per writer: the lock of the newContents argument
    read,       \* per writer: the [ver, lock] its Update read
    upstream,   \* per writer: the lock it last learnt
    ret,        \* per writer: what its last Update returned
    written     \* history: every lock the manifest object has held

vars == <<store, pc, lastLock, newLock, read, upstream, ret, written>>

\* The errors an Update can return.
ErrNotFound == "ErrNotFound"
ErrIO       == "ErrIO"
NoResult    == "none"

\* manifestVersionAndContents: Get the object's version and parsed contents;
\* a missing object is the blobstore's not-found error.
GetResult(s) ==
    IF s.exists THEN [err |-> NoResult, ver |-> s.ver, lock |-> s.lock]
    ELSE [err |-> ErrNotFound, ver |-> 0, lock |-> EmptyLock]

\* The contents ParseIfExists reports: the stored lock, or the zero lock of
\* empty contents when the object does not exist.
ParsedLock(s) == IF s.exists THEN s.lock ELSE EmptyLock

\* Locks not yet used by the manifest nor by a pending Update: the contents
\* a writer proposes are new, so their lock hash is new.
FreshLocks == Locks \ (written \cup {newLock[w] : w \in Writers})

-----------------------------------------------------------------------------

\* ParseIfExists: the writer learns the current lock, the zero lock when
\* the object is missing.  An I/O error would leave its view unchanged.
ParseIfExists(w) ==
    /\ pc[w] = "idle"
    /\ upstream' = [upstream EXCEPT ![w] = ParsedLock(store)]
    /\ UNCHANGED <<store, pc, lastLock, newLock, read, ret, written>>

\* Mutant of Return: the caller adopts whatever Update returned, errors too.
ReturnAdoptsAll(w, r) ==
    /\ ret' = [ret EXCEPT ![w] = r]
    /\ upstream' = [upstream EXCEPT ![w] = r]
    /\ pc' = [pc EXCEPT ![w] = "idle"]

\* The caller takes the lock Update returned as its new upstream lock.
Return(w, r) ==
    /\ ret' = [ret EXCEPT ![w] = r]
    /\ upstream' = [upstream EXCEPT ![w] = IF r \in Locks THEN r ELSE @]
    /\ pc' = [pc EXCEPT ![w] = "idle"]

\* Update, up to its CheckAndPut: the Get and the lock comparison.  A failed
\* Get returns its error; a lock other than lastLock is returned as is.
UpdateRead(w, n) ==
    LET got == GetResult(store) IN
    /\ pc[w] = "idle"
    /\ lastLock' = [lastLock EXCEPT ![w] = upstream[w]]
    /\ newLock' = [newLock EXCEPT ![w] = n]
    /\ \/ /\ got.err = ErrNotFound
          /\ Return(w, ErrNotFound)
          /\ UNCHANGED read
       \/ /\ got.err = NoResult
          /\ got.lock # upstream[w]
          /\ Return(w, got.lock)
          /\ UNCHANGED read
       \/ /\ got.err = NoResult
          /\ got.lock = upstream[w]
          /\ read' = [read EXCEPT ![w] = [ver |-> got.ver, lock |-> got.lock]]
          /\ pc' = [pc EXCEPT ![w] = "put"]
          /\ UNCHANGED <<ret, upstream>>
    /\ UNCHANGED <<store, written>>

\* Get fails with an I/O error.
UpdateReadFails(w, n) ==
    /\ pc[w] = "idle"
    /\ lastLock' = [lastLock EXCEPT ![w] = upstream[w]]
    /\ newLock' = [newLock EXCEPT ![w] = n]
    /\ Return(w, ErrIO)
    /\ UNCHANGED <<store, read, written>>

\* The manifest after writer w's put lands.
Put(w) == [exists |-> TRUE, ver |-> store.ver + 1, lock |-> newLock[w]]

\* Mutant of VersionMatches: CheckAndPut ignores the version it was given.
VersionIgnored(w) == TRUE

\* CheckAndPut's condition: the object is still at the version Get read.
VersionMatches(w) == store.exists /\ store.ver = read[w].ver

\* What Update returns when CheckAndPut lost the race: the contents it read.
ConflictResult(w) == read[w].lock

\* CheckAndPut and the rest of Update.
UpdatePut(w) ==
    /\ pc[w] = "put"
    /\ \/ /\ VersionMatches(w)
          /\ store' = Put(w)
          /\ written' = written \cup {newLock[w]}
          /\ Return(w, newLock[w])
       \/ /\ ~VersionMatches(w)
          /\ Return(w, ConflictResult(w))
          /\ UNCHANGED <<store, written>>
    /\ UNCHANGED <<lastLock, newLock, read>>

\* CheckAndPut fails with an I/O error, after or without the write landing.
UpdatePutFails(w) ==
    /\ pc[w] = "put"
    /\ \/ /\ VersionMatches(w)
          /\ store' = Put(w)
          /\ written' = written \cup {newLock[w]}
       \/ UNCHANGED <<store, written>>
    /\ Return(w, ErrIO)
    /\ UNCHANGED <<lastLock, newLock, read>>

Init ==
    /\ store = IF ManifestExists
               THEN [exists |-> TRUE, ver |-> 0, lock |-> InitialLock]
               ELSE [exists |-> FALSE, ver |-> 0, lock |-> EmptyLock]
    /\ written = IF ManifestExists THEN {InitialLock} ELSE {}
    /\ pc = [w \in Writers |-> "idle"]
    /\ lastLock = [w \in Writers |-> EmptyLock]
    /\ newLock = [w \in Writers |-> EmptyLock]
    /\ read = [w \in Writers |-> [ver |-> 0, lock |-> EmptyLock]]
    /\ upstream = [w \in Writers |-> EmptyLock]
    /\ ret = [w \in Writers |-> NoResult]

Next ==
    \E w \in Writers :
        \/ ParseIfExists(w)
        \/ \E n \in FreshLocks : UpdateRead(w, n)
        \/ \E n \in FreshLocks : UpdateReadFails(w, n)
        \/ UpdatePut(w)
        \/ UpdatePutFails(w)

Spec == Init /\ [][Next]_vars

-----------------------------------------------------------------------------
(* Properties                                                               *)

\* Every variable holds what the actions put there.
TypeOK ==
    /\ store \in [exists : BOOLEAN, ver : Nat, lock : Locks \cup {EmptyLock}]
    /\ pc \in [Writers -> {"idle", "put"}]
    /\ lastLock \in [Writers -> Locks \cup {EmptyLock}]
    /\ newLock \in [Writers -> Locks \cup {EmptyLock}]
    /\ upstream \in [Writers -> Locks \cup {EmptyLock}]
    /\ ret \in [Writers -> Locks \cup {ErrNotFound, ErrIO, NoResult}]
    /\ written \subseteq Locks

\* The split Update, with I/O failures of Get and CheckAndPut, implements
\* the atomic compare-and-set register of AtomicManifest: the manifest's
\* lock is the register, and each client's upstream lock is its view.
\* However the Gets and CheckAndPuts of concurrent Updates interleave, a
\* write happens only from the lock the writer currently holds as upstream,
\* and every lock a client adopts was the manifest's lock when adopted.
Abstract == INSTANCE AtomicManifest WITH lock <- ParsedLock(store), view <- upstream

ImplementsAtomicManifest == Abstract!Spec

\* ParseIfExists reports a missing manifest as empty contents with the zero
\* lock; Update given that lock should then write the first manifest rather
\* than fail because the object is not found.
UpdateNeverNotFound ==
    \A w \in Writers : ret[w] # ErrNotFound

=============================================================================
