-------------------------------- MODULE Backlog --------------------------------
(* When the server closes a connection whose peer takes its replies too       *)
(* slowly: the end of Connection::sendBuffer(), for one connection of TCP.    *)
(* What the replies are and who sends them is the subject of Server.          *)
EXTENDS Integers, Sequences, SequencesExt, FiniteSetsExt

CONSTANTS
  CheckTime,    \* seconds between two checks (5)
  SlowChecks,   \* checks in a row that find the peer slow (3)
  GrowChecks,   \* checks in a row that find more and more left (12)
  BackLimit,    \* _iBackPacketBuffLimit: what is left is a backlog when it is more
  BackMin,      \* _iBackPacketBuffMin: the peer is slow when it takes no more between checks
  Replies,      \* sizes of replies
  MaxLeft,      \* bound: bytes in _sendBuffer
  MaxWrites     \* bound: calls of sendBuffer() in a second

VARIABLES
  sendLen,   \* length of _sendBuffer
  counted,   \* _sendBufferSize
  since,     \* TNOW - _lastCheckTime, as far as CheckTime
  checks,    \* _checkSend
  verdict,   \* "open", or what the connection was closed for: "slow" or "grows"
  behind,    \* history: seconds since a call that left no backlog
  accepted,  \* history: bytes the peer took in each of the last seconds, this one first
  trickle,   \* history: seconds in a row with a backlog in which it took a little
  writes     \* calls in this second

backlogVars == <<sendLen, counted, since, checks, verdict, behind, accepted, trickle, writes>>

SlowTime == SlowChecks * CheckTime
GrowTime == GrowChecks * CheckTime

\* So little in each second that no time between two checks sees more than BackMin.
Little == 1..(BackMin \div (CheckTime + 1))

BacklogInit ==
  /\ sendLen = 0 /\ counted = 0 /\ since = 0 /\ checks = <<>> /\ verdict = "open"
  /\ behind = 0 /\ accepted = [i \in 1..SlowTime |-> 0] /\ trickle = 0 /\ writes = 0

-----------------------------------------------------------------------------
(* sendBuffer() *)

TooSlow(found) ==
  Len(found) >= SlowChecks /\ \A i \in (Len(found) - SlowChecks + 1)..Len(found) : found[i][1] <= BackMin
Grows(found) ==
  Len(found) >= GrowChecks /\ \A i \in 2..Len(found) : found[i][2] >= found[i - 1][2]

\* A check: what was sent since the last one, and what was there before this call.
CheckBacklog(bytes, before) ==
  LET found == Append(checks, <<bytes, before>>)
  IN /\ counted' = 0 /\ since' = 0
     /\ verdict' = IF TooSlow(found) THEN "slow" ELSE IF Grows(found) THEN "grows" ELSE "open"
     /\ checks' = IF Len(found) >= GrowChecks THEN Tail(found) ELSE found

\* For as long as nothing was sent since the last check, the time does not begin.
WithBacklog(n, before) ==
  LET age == IF counted = 0 THEN 0 ELSE since
  IN IF age >= CheckTime THEN CheckBacklog(counted + n, before)
     ELSE counted' = counted + n /\ since' = age /\ UNCHANGED <<checks, verdict>>

\* Wrong: the checks of an earlier backlog count.
NoBacklogKeeps == counted' = 0 /\ since' = 0 /\ UNCHANGED <<checks, verdict>>
NoBacklog      == counted' = 0 /\ since' = 0 /\ checks' = <<>> /\ UNCHANGED verdict

\* The socket takes n of what is there.
SendBuffer(before, n) ==
  /\ verdict = "open" /\ writes < MaxWrites /\ before <= MaxLeft
  /\ sendLen' = before - n
  /\ IF sendLen' > BackLimit THEN WithBacklog(n, before) ELSE NoBacklog
  /\ behind' = IF sendLen' > BackLimit THEN behind ELSE 0
  /\ accepted' = [accepted EXCEPT ![1] = @ + n]
  /\ trickle' = IF sendLen' > BackLimit THEN trickle ELSE 0
  /\ writes' = writes + 1

\* Connection::send().
SendReply == \E size \in Replies : \E n \in 0..(sendLen + size) : SendBuffer(sendLen + size, n)

\* The socket can be written again.
WriteEvent == \E n \in 1..sendLen : SendBuffer(sendLen, n)

SecondPasses ==
  /\ verdict = "open"
  /\ since' = Min({since + 1, CheckTime})
  /\ behind' = Min({behind + 1, GrowTime})
  /\ accepted' = <<0>> \o SubSeq(accepted, 1, SlowTime - 1)
  /\ trickle' = IF accepted[1] \in Little /\ behind > 0 THEN trickle + 1 ELSE 0
  /\ writes' = 0
  /\ UNCHANGED <<sendLen, counted, checks, verdict>>

BacklogNext == SendReply \/ WriteEvent \/ SecondPasses

BacklogSpec == BacklogInit /\ [][BacklogNext]_backlogVars

-----------------------------------------------------------------------------

\* A connection is closed as slow only if there was a backlog all through the last checks and
\* the peer took no more than BackMin for each, in all the seconds they stand for, and for
\* a backlog that grows only if there was one all through.  And a peer that goes on taking a
\* little is closed before one more check than it needs.  (One that takes nothing is never
\* checked, though the comment says it is.)
SlowPeerClosed ==
  /\ verdict = "slow" => behind >= SlowTime /\ FoldLeft(+, 0, accepted) <= SlowChecks * BackMin
  /\ verdict = "grows" => behind >= GrowTime
  /\ trickle < (SlowChecks + 1) * (CheckTime + 1)
===============================================================================
