---- MODULE I3XClient ----
(***************************************************************************)
(* The client of the repository (i3x/client.py), in its v1 mode, on top of *)
(* the subscription manager: it drains a subscription with sync() and with *)
(* stream() at the same time, and keeps one number for both, `_sync_seq`.  *)
(*                                                                         *)
(* The client here takes the place of the one Subscriptions imagines for   *)
(* itself: `seen` is not used.                                             *)
(***************************************************************************)
EXTENDS Subscriptions

CONSTANT MaxTransit   \* bound: events of a stream on their way

VARIABLES
  syncSeq,    \* I3XClient._sync_seq; 0 when the subscription has no key there
  transit,    \* the events each stream has sent and the client not parsed
  got,        \* history: the numbers the client's user was given
  refused,    \* history: the numbers a full queue refused
  behind      \* history: what was not acknowledged when a stream was attached

numbers == <<syncSeq, got>>
ghosts == <<refused, behind>>
extra == <<numbers, transit, ghosts>>
clientVars == <<vars, extra>>

ClientInit ==
  /\ Init
  /\ syncSeq = [s \in Subs |-> 0]
  /\ transit = [t \in Streams |-> <<>>]
  /\ got = [s \in Subs |-> {}]
  /\ refused = [s \in Subs |-> {}]
  /\ behind = [s \in Subs |-> {}]

(* Mutant: the next number is kept where the last is meant.                *)
MutParseStreamItems(s, items) ==
  /\ got' = [got EXCEPT ![s] = @ \cup Numbers(items)]
  /\ syncSeq' = [syncSeq EXCEPT ![s] = Newest(items, @) + 1]

ParseStreamItems(s, items) ==
  /\ got' = [got EXCEPT ![s] = @ \cup Numbers(items)]
  /\ syncSeq' = [syncSeq EXCEPT ![s] = Newest(items, @)]

--------------------------------------------------------------------------
(* sync(): the request, and its response.                                  *)

Poll(s) == Answer(s, After(ring[s], syncSeq[s]), dropped[s]) /\ UNCHANGED extra

(* _request keeps the result of the response and throws `dropped` away.    *)
Polled(s) ==
  /\ reply[s].pending
  /\ ParseStreamItems(s, reply[s].items)
  /\ reply' = [reply EXCEPT ![s] = NoReply]
  /\ UNCHANGED <<manager, sse, seen, transit, ghosts>>

PollFails(s) == LoseReply(s) /\ UNCHANGED extra

(* delete_subscription pops the number when the server has answered; an    *)
(* event that is parsed later puts it back.                                *)
Forget(s) ==
  /\ phase[s] = "deleted" /\ syncSeq[s] # 0
  /\ syncSeq' = [syncSeq EXCEPT ![s] = 0]
  /\ UNCHANGED <<vars, got, transit, ghosts>>

--------------------------------------------------------------------------
(* stream().                                                               *)

(* A stream starts with the next sample, whatever the client has so far.   *)
Open(t) ==
  /\ Attach(t)
  /\ behind' = [behind EXCEPT ![target[t]] =
                  @ \cup {n \in syncSeq[target[t]] + 1 .. nextSeq[target[t]] - 1 : n \notin got[target[t]]}]
  /\ UNCHANGED <<numbers, transit, refused>>

Send(t) ==
  /\ Yield(t)
  /\ Len(transit[t]) < MaxTransit
  /\ transit' = [transit EXCEPT ![t] = Append(@, Head(queue[t]))]
  /\ UNCHANGED <<numbers, ghosts>>

Hear(t) ==
  /\ transit[t] # <<>>
  /\ ParseStreamItems(target[t], {Head(transit[t])})
  /\ transit' = [transit EXCEPT ![t] = Tail(@)]
  /\ UNCHANGED <<vars, ghosts>>

(* The client leaves, and reads no more of the response.                   *)
HangUp(t) ==
  /\ Disconnect(t)
  /\ transit' = [transit EXCEPT ![t] = <<>>]
  /\ UNCHANGED <<numbers, ghosts>>

--------------------------------------------------------------------------
(* The server.                                                             *)

(* Samples of what the client registered: which those are does not matter  *)
(* to one subscription, so its registrations are not told apart here.      *)
Publish ==
  /\ \E s \in Subs, e \in Elements : PushTo(s, e)
  /\ refused' = [s \in Subs |->
                   IF nextSeq'[s] # nextSeq[s] /\ \E t \in streamers[s] : Len(queue[t]) = QueueSize
                   THEN refused[s] \cup {nextSeq[s]} ELSE refused[s]]
  /\ UNCHANGED <<numbers, transit, behind>>

Manage == (\E s \in Subs : Create(s) \/ Delete(s)) /\ UNCHANGED extra

Answering == (\E t \in Streams : Admit(t) \/ AttachFails(t) \/ Leave(t)) /\ UNCHANGED extra

End(t) == EndOfStream(t) /\ UNCHANGED extra

ClientNext ==
  \/ \E s \in Subs : Poll(s) \/ Polled(s) \/ PollFails(s) \/ Forget(s)
  \/ \E t \in Streams : Open(t) \/ Send(t) \/ End(t) \/ Hear(t) \/ HangUp(t)
  \/ Publish \/ Manage \/ Answering

ClientSpec == ClientInit /\ [][ClientNext]_clientVars

(* A generator with something to send sends it, and the client reads what  *)
(* it is sent.                                                             *)
FairClientSpec ==
  ClientSpec /\ \A t \in Streams : WF_clientVars(Send(t) \/ End(t)) /\ WF_clientVars(Hear(t))

--------------------------------------------------------------------------
(* What the shared number may not do: pass a sample that the client did    *)
(* not get and could still have asked for.  It does pass those a full      *)
(* queue refused, which are not, as _append_locked says, recovered "via    *)
(* /subscriptions/sync using the ring", and those that were waiting in the *)
(* ring when a stream was opened; it passes no others, whatever is lost,   *)
(* late, closed or polled in between.                                      *)
NothingSkipped ==
  \A s \in Subs : \A n \in 1 .. syncSeq[s] :
    n \in Numbers(After(ring[s], 0)) => n \in got[s] \cup refused[s] \cup behind[s]

====
