--------------------------- MODULE PushInvariant ---------------------------
(***************************************************************************)
(* The inductive invariant of the push runtime, in named parts.  Each part *)
(* strengthens one property of AsynchronousProcessor; PushProofs shows that*)
(* together they are preserved by every step.                              *)
(***************************************************************************)
EXTENDS AsynchronousProcessor

\* The pool has nothing to do before the first broadcast starts it.
IdleUntilStarted == ~started => \A w \in Worker : pc[w] = "idle"

\* The two parts of OneLeader, with what start() relies on.
LeaderInv == OneLeader /\ IdleUntilStarted

\* A thread works on a response's event between the first isCancelled test
\* and future.done().
Past == {"touch", "mark", "write", "finish"}

\* A closing thread only handles a request whose request thread is done with it.
CloserOwnsRequest ==
  \A c \in Closer : closerPc[c] # "idle" => request[closes[c]] = "done"

\* From setCancelled(true) on, the response stays cancelled.
CancelledBeforeScope ==
  /\ \A c \in Closer :
       closerKind[c] = "cancelled"
         /\ closerPc[c] \notin {"idle", "guarded", "flag"} =>
            isCancelled[closes[c]]
  /\ \A c \in Closer : closerPc[c] = "scope" => closerKind[c] = "cancelled"
  /\ \A r \in Resource :
       ~isInScope[r] => isCancelled[r] /\ request[r] = "done"

\* Once removeAllAtmosphereResource got the monitor of a cancelled response,
\* no writer is at work on it: that is what setIsInScope(false) relies on.
BarrierPassed ==
  \A c \in Closer, w \in Worker :
    closerPc[c] = "scope" /\ pc[w] \in Past => tokenResource[w] # closes[c]

ScopeInv ==
  CloserOwnsRequest /\ CancelledBeforeScope /\ BarrierPassed /\ InScopeWhileWriting

\* A closing thread that has removed a response finds it removed later on.
RemovedStaysRemoved ==
  \A c \in Closer :
    closerPc[c] \in {"all", "allThrown", "scope"} =>
       closes[c] \notin resources \cup aliveRequests

ForgottenInv == RemovedStaysRemoved /\ OutOfScopeIsForgotten

\* One late write, and after it no other writer is on its way to write.
LateInv ==
  \A r \in Resource :
    /\ late[r] \in {0, 1}
    /\ late[r] = 1 =>
         /\ isCancelled[r]
         /\ \A w \in Worker :
              tokenResource[w] = r => pc[w] \notin {"touch", "mark", "write"}

---------------------------------------------------------------------------
(* The order of the messages on their way to one response.                 *)

\* The threads that hold a token still to be written.
Carrying == {"enter", "check", "touch", "mark", "write"}

\* The entries still queued are the latest broadcasts, in order.
Numbered ==
  /\ broadcasts = pushed + Len(messages)
  /\ \A k \in DOMAIN messages : messages[k].id = pushed + k
  /\ iterator # {} => pushed >= 1

\* Message m is later than all that was pushed to response r so far.
Latest(r, m) ==
  /\ \A i \in DOMAIN asyncWriteQueue :
       asyncWriteQueue[i].r = r => asyncWriteQueue[i].id < m
  /\ \A w \in Worker :
       pc[w] \in Carrying /\ tokenResource[w] = r => tokenMsg[w] < m
  /\ \A i \in DOMAIN wire[r] : wire[r][i] < m

\* The iterator may still come to r.
Awaits(r) ==
  \/ r \in iterator
  \/ toAll /\ request[r] \in {"new", "suspending"}

PushOrder ==
  \A r \in Resource :
    /\ Latest(r, pushed + 1)
    /\ Awaits(r) => Latest(r, pushed)

\* A queued token is later than what was written, what is held and what is
\* queued before it for the same response.
QueueOrder ==
  \A i \in DOMAIN asyncWriteQueue :
    /\ asyncWriteQueue[i].id >= 1
    /\ \A j \in DOMAIN asyncWriteQueue :
         j < i /\ asyncWriteQueue[j].r = asyncWriteQueue[i].r =>
            asyncWriteQueue[j].id < asyncWriteQueue[i].id
    /\ \A w \in Worker :
         pc[w] \in Carrying /\ tokenResource[w] = asyncWriteQueue[i].r =>
            tokenMsg[w] < asyncWriteQueue[i].id
    /\ \A k \in DOMAIN wire[asyncWriteQueue[i].r] :
         wire[asyncWriteQueue[i].r][k] < asyncWriteQueue[i].id

\* The leader's token is later than the one being written to the same
\* response, and a held token later than everything written before.
HeldOrder ==
  /\ \A v, w \in Worker :
       /\ pc[v] = "enter"
       /\ pc[w] \in Carrying \ {"enter"}
       /\ tokenResource[w] = tokenResource[v]
       => tokenMsg[w] < tokenMsg[v]
  /\ \A w \in Worker :
       pc[w] \in Carrying =>
         /\ tokenMsg[w] >= 1
         /\ \A k \in DOMAIN wire[tokenResource[w]] : wire[tokenResource[w]][k] < tokenMsg[w]

\* What a writer writes, the event's message, is the message of its token.
MessageIsToken ==
  \A w \in Worker :
    pc[w] \in {"touch", "mark", "write"} =>
       message[tokenResource[w]] = tokenMsg[w]

\* A response is not registered, and not iterated over as if it were, before
\* its request registers it.
NotYetRegistered ==
  \A r \in Resource :
    request[r] \in {"new", "suspending"} =>
      r \notin resources /\ ~(toAll /\ r \in iterator)

OrderInv ==
  Numbered /\ PushOrder /\ QueueOrder /\ HeldOrder /\ MessageIsToken
           /\ NotYetRegistered

IInv ==
  TypeOK /\ LeaderInv /\ WriterOwnsMonitor /\ ScopeInv /\ ForgottenInv
         /\ LateInv /\ OrderInv
===========================================================================
