--------------------------- MODULE FakeContainer ---------------------------
(***************************************************************************)
(* The container the tests of the backend put in the place of a            *)
(* LinuxContainer (fake_container_pool.FakeContainer): it records that it  *)
(* was started and cleaned up, keeps the writers it was asked to save a    *)
(* snapshot to, and fails on request.                                      *)
(*                                                                         *)
(* Model simplifications:                                                  *)
(*  - the append under snapshotMutex is a read and a write of the slice;   *)
(*  - a test sets StartError and SnapshotError between two calls.          *)
(***************************************************************************)
EXTENDS Naturals, Sequences, FiniteSets, SequencesExt

CONSTANTS
  Threads,        \* the goroutines that call the container
  Specs,          \* the container specs given to NewFakeContainer
  Mtus,           \* the values Start is called with
  Writers,        \* the writers Snapshot is called with
  Errors,         \* the errors the tests inject
  MaxSnapshots,   \* bound on the snapshots saved and being saved
  Nil

VARIABLES
  Spec,           \* c.Spec
  SnapshotError, SavedSnapshots, snapshotMutex,
  StartError, Started, Mtu,
  CleanedUp,
  call,           \* call[t]: where thread t is inside Snapshot
  ret             \* the last return

fields == <<Spec, SnapshotError, SavedSnapshots, snapshotMutex, StartError, Started, Mtu, CleanedUp>>
vars == <<fields, call, ret>>

Idle == [at |-> "idle"]

-----------------------------------------------------------------------------
(* Operations *)

\* NewFakeContainer(spec)
Init ==
  /\ Spec \in Specs
  /\ SnapshotError = Nil /\ SavedSnapshots = <<>> /\ snapshotMutex = Nil
  /\ StartError = Nil /\ Started = FALSE /\ Mtu = 0
  /\ CleanedUp = FALSE
  /\ call = [t \in Threads |-> Idle]
  /\ ret = [op |-> "New", val |-> Nil]

ID == Spec.Handle
Handle == Spec.Handle
Properties == Spec.Properties
GraceTime == Spec.GraceTime

\* A test sets the errors the container is to return.
Inject(startError, snapshotError) ==
  /\ \A t \in Threads : call[t] = Idle
  /\ StartError' = startError
  /\ SnapshotError' = snapshotError
  /\ UNCHANGED <<Spec, SavedSnapshots, snapshotMutex, Started, Mtu, CleanedUp, call, ret>>

\* c.ID(), c.Handle(), c.Properties(), c.GraceTime()
Get(t, op, val) ==
  /\ call[t] = Idle
  /\ ret' = [op |-> op, val |-> val]
  /\ UNCHANGED <<fields, call>>

\* Seeded fault: the MTU is not recorded.
StartWithoutMtu(t, mtu) ==
  /\ call[t] = Idle
  /\ Started' = TRUE
  /\ ret' = [op |-> "Start", val |-> StartError]
  /\ UNCHANGED <<Spec, SnapshotError, SavedSnapshots, snapshotMutex, StartError, Mtu, CleanedUp, call>>

\* c.Start(mtu): started even when it returns the error.
Start(t, mtu) ==
  /\ call[t] = Idle
  /\ Started' = TRUE
  /\ Mtu' = mtu
  /\ ret' = [op |-> "Start", val |-> StartError]
  /\ UNCHANGED <<Spec, SnapshotError, SavedSnapshots, snapshotMutex, StartError, CleanedUp, call>>

\* c.Cleanup()
Cleanup(t) ==
  /\ call[t] = Idle
  /\ CleanedUp' = TRUE
  /\ ret' = [op |-> "Cleanup", val |-> Nil]
  /\ UNCHANGED <<Spec, SnapshotError, SavedSnapshots, snapshotMutex, StartError, Started, Mtu, call>>

\* c.Snapshot(snapshot), to the mutex: the injected error is returned
\* before the mutex is taken.
Snapshot(t, snapshot) ==
  /\ call[t] = Idle
  /\ Len(SavedSnapshots) + Cardinality({u \in Threads : call[u] # Idle}) < MaxSnapshots
  /\ IF SnapshotError # Nil
     THEN ret' = [op |-> "Snapshot", val |-> SnapshotError] /\ UNCHANGED call
     ELSE call' = [call EXCEPT ![t] = [at |-> "lock", snapshot |-> snapshot]]
          /\ UNCHANGED ret
  /\ UNCHANGED fields

\* Seeded fault: the slice is read without the mutex.
SnapshotLockNoWait(t) ==
  /\ call[t].at = "lock"
  /\ call' = [call EXCEPT ![t] = [at |-> "append", snapshot |-> @.snapshot,
                                  read |-> SavedSnapshots]]
  /\ UNCHANGED <<fields, ret>>

\* c.snapshotMutex.Lock() and the read of the slice
SnapshotLock(t) ==
  /\ call[t].at = "lock"
  /\ snapshotMutex = Nil
  /\ snapshotMutex' = t
  /\ call' = [call EXCEPT ![t] = [at |-> "append", snapshot |-> @.snapshot,
                                  read |-> SavedSnapshots]]
  /\ UNCHANGED <<Spec, SnapshotError, SavedSnapshots, StartError, Started, Mtu, CleanedUp, ret>>

\* The write of the slice, the deferred Unlock and the return.
SnapshotAppend(t) ==
  /\ call[t].at = "append"
  /\ SavedSnapshots' = Append(call[t].read, call[t].snapshot)
  /\ snapshotMutex' = IF snapshotMutex = t THEN Nil ELSE snapshotMutex
  /\ call' = [call EXCEPT ![t] = Idle]
  /\ ret' = [op |-> "Snapshot", val |-> Nil]
  /\ UNCHANGED <<Spec, SnapshotError, StartError, Started, Mtu, CleanedUp>>

Next ==
  \/ \E e, f \in Errors \cup {Nil} : Inject(e, f)
  \/ \E t \in Threads :
       \/ Get(t, "ID", ID) \/ Get(t, "Handle", Handle)
       \/ Get(t, "Properties", Properties) \/ Get(t, "GraceTime", GraceTime)
       \/ \E mtu \in Mtus : Start(t, mtu)
       \/ Cleanup(t)
       \/ \E snapshot \in Writers : Snapshot(t, snapshot)
       \/ SnapshotLock(t)
       \/ SnapshotAppend(t)

FakeSpec == Init /\ [][Next]_vars

-----------------------------------------------------------------------------
(* Properties *)

\* The types of the fields; a container that was started knows the MTU it
\* was started with, whether or not Start returned the injected error.
TypeOK ==
  /\ Spec \in Specs
  /\ SnapshotError \in Errors \cup {Nil} /\ StartError \in Errors \cup {Nil}
  /\ SavedSnapshots \in BoundedSeq(Writers, MaxSnapshots)
  /\ snapshotMutex \in Threads \cup {Nil}
  /\ Started \in BOOLEAN /\ CleanedUp \in BOOLEAN
  /\ Mtu \in Mtus \cup {0} /\ (Started => Mtu \in Mtus)

\* No saved snapshot is lost: Snapshot calls of several goroutines append
\* under snapshotMutex, so the list only ever grows at its end.
SnapshotsOnlyAppended ==
  [][IsPrefix(SavedSnapshots, SavedSnapshots')]_vars

=============================================================================
