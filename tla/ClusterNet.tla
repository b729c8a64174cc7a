----------------------------- MODULE ClusterNet -----------------------------
(***************************************************************************)
(* The TCP connections between the master and the worker processes, as the *)
(* socket calls of src/master.c and src/worker.c observe them.  The kernel *)
(* is not part of the repository: this module is external.                 *)
(*                                                                         *)
(* A worker process opens at most one connection, so a connection is named *)
(* by its process.  Bytes travel in order and are not lost while the       *)
(* connection is whole; at most SocketBuffer of them are in flight in each *)
(* direction, so a sender may get rid of part of its buffer only.          *)
(***************************************************************************)
EXTENDS ClusterCommon

CONSTANTS Procs,         \* the worker processes
          NoFd,          \* the descriptor -1
          SocketBuffer,  \* bytes a direction can hold
          Faults         \* the kinds of fault the environment may inject

FaultKinds == {"crash",           \* a worker process is killed
               "masterCrash",     \* the master process is killed
               "linkReset",       \* keep-alive or TCP_USER_TIMEOUT gives up
               "connectTimeout",  \* ConnectToMaster runs out of time
               "recvTimeout",     \* SO_RCVTIMEO of a worker expires
               "sendTimeout",     \* SO_SNDTIMEO of a worker expires
               "run",             \* WorkerRun fails for a reason of its own
               "alloc",           \* malloc or calloc returns NULL
               "sys",             \* poll, accept, setsockopt, bind ... fail
               "signal"}          \* a signal other than SIGALRM interrupts

ASSUME NetAssumption ==
    /\ NoFd \notin Procs
    /\ SocketBuffer \in Nat \ {0}
    /\ Faults \subseteq FaultKinds

VARIABLES listening,    \* the listening socket is open
          acceptQueue,  \* connections established and not yet accept()ed
          down,         \* per connection: bytes on their way to the worker
          up,           \* per connection: bytes on their way to the master
          masterFin,    \* per connection: the master closed its end
          workerFin,    \* per connection: the worker closed its end
          broken        \* per connection: reset, every later call on it fails

netVars == <<listening, acceptQueue, down, up, masterFin, workerFin, broken>>

NetTypeOK ==
    /\ listening \in BOOLEAN
    /\ acceptQueue \in Seq(Procs)
    /\ down \in [Procs -> Seq(Byte)]
    /\ up \in [Procs -> Seq(Byte)]
    /\ masterFin \in [Procs -> BOOLEAN]
    /\ workerFin \in [Procs -> BOOLEAN]
    /\ broken \in [Procs -> BOOLEAN]

NetInit ==
    /\ listening = FALSE
    /\ acceptQueue = <<>>
    /\ down = [p \in Procs |-> <<>>]
    /\ up = [p \in Procs |-> <<>>]
    /\ masterFin = [p \in Procs |-> FALSE]
    /\ workerFin = [p \in Procs |-> FALSE]
    /\ broken = [p \in Procs |-> FALSE]

Room(channel) == SocketBuffer - Len(channel)

(***************************************************************************)
(* close() with unread input resets the connection instead of ending it.   *)
(***************************************************************************)
MasterCloses(closed) ==
    /\ masterFin' = [p \in Procs |-> masterFin[p] \/ p \in closed]
    /\ broken' = [p \in Procs |-> broken[p] \/ (p \in closed /\ up[p] # <<>>)]

WorkerCloses(p, unread) ==
    /\ workerFin' = [workerFin EXCEPT ![p] = TRUE]
    /\ broken' = [broken EXCEPT ![p] = @ \/ unread # <<>>]

(***************************************************************************)
(* Closing the listening socket resets the connections still queued on it. *)
(***************************************************************************)
Queued == {acceptQueue[k] : k \in DOMAIN acceptQueue}

MasterClosesAll(open) ==
    /\ listening' = FALSE
    /\ acceptQueue' = <<>>
    /\ masterFin' = [p \in Procs |-> masterFin[p] \/ p \in open \cup Queued]
    /\ broken' = [p \in Procs |-> \/ broken[p]
                                  \/ p \in open /\ up[p] # <<>>
                                  \/ p \in Queued]

(***************************************************************************)
(* Bytes that reach a closed end are answered with a reset.                *)
(***************************************************************************)
PeerReset(p) ==
    /\ ~broken[p]
    /\ \/ workerFin[p] /\ down[p] # <<>>
       \/ masterFin[p] /\ up[p] # <<>>
    /\ broken' = [broken EXCEPT ![p] = TRUE]
    /\ UNCHANGED <<listening, acceptQueue, down, up, masterFin, workerFin>>
=============================================================================
