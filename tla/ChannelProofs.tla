---------------------------- MODULE ChannelProofs ----------------------------
(***************************************************************************)
(* Channel for all queue names, of any length, and any number of clients.  *)
(***************************************************************************)
EXTENDS Channel, TLAPS

ChannelName == [kind : {"plain", "hashed", "cut"}, name : Names]

\* A client that listens does so on one of the two channels its queue has, and
\* has been woken for all that was sent since.
ListenerInv ==
  \A c \in Clients :
    /\ serves[c] = NULL => channel[c] = NULL /\ woken[c] = 0
    /\ serves[c] # NULL =>
         /\ channel[c] \in {Identifier(GoChannel(serves[c])), Identifier(SqlChannel(serves[c]))}
         /\ since[c] <= sent[serves[c]]
         /\ woken[c] = sent[serves[c]] - since[c]

\* The inductive invariant.
IInv == TypeOK /\ ListenerInv /\ OnlyMultibyteRefused

-----------------------------------------------------------------------------
LEMMA NameFacts ==
  ASSUME NEW n \in Names
  PROVE  n.chars \in Nat /\ n.bytes \in Nat /\ n.chars <= n.bytes
BY NameAssumption

\* The two computations agree wherever notifying works at all.
LEMMA SameChannel ==
  ASSUME NEW n \in Names, Accepted(SqlChannel(n))
  PROVE  /\ Identifier(GoChannel(n)) = SqlChannel(n)
         /\ Identifier(SqlChannel(n)) = SqlChannel(n)
<1>1. CASE Prefix + n.bytes <= Limit
  BY <1>1, NameFacts
  DEF SqlChannel, GoChannel, Identifier, Accepted, Bytes, Plain, Hashed, Prefix, Limit, HashChars
<1>2. CASE ~(Prefix + n.bytes <= Limit)
  <2>1. SqlChannel(n) = Hashed(n)
    BY <1>2, NameFacts DEF SqlChannel, Accepted, Bytes, Plain, Hashed, Prefix, Limit, HashChars
  <2>2. GoChannel(n) = Hashed(n)
    BY <1>2 DEF GoChannel
  <2>. QED BY <2>1, <2>2 DEF Identifier
<1>. QED BY <1>1, <1>2

\* A channel belongs to one queue.
LEMMA ChannelOfQueue ==
  ASSUME NEW n \in Names
  PROVE  /\ SqlChannel(n) \in ChannelName /\ SqlChannel(n).name = n
         /\ Identifier(SqlChannel(n)) \in ChannelName /\ Identifier(SqlChannel(n)).name = n
         /\ Identifier(GoChannel(n)) \in ChannelName /\ Identifier(GoChannel(n)).name = n
<1>1. Plain(n).name = n /\ Hashed(n).name = n /\ Cut(n).name = n
  BY DEF Plain, Hashed, Cut
<1>2. {Plain(n), Hashed(n), Cut(n)} \subseteq ChannelName
  BY DEF Plain, Hashed, Cut, ChannelName
<1>3. SqlChannel(n) \in {Plain(n), Hashed(n)} /\ GoChannel(n) \in {Plain(n), Hashed(n)}
  BY DEF SqlChannel, GoChannel
<1>4. /\ Identifier(SqlChannel(n)) \in {SqlChannel(n), Cut(n)}
      /\ Identifier(GoChannel(n)) \in {GoChannel(n), Cut(n)}
  BY <1>1, <1>3 DEF Identifier
<1>. QED BY <1>1, <1>2, <1>3, <1>4

LEMMA InitInv == Init => IInv
BY NameAssumption DEF Init, IInv, TypeOK, ListenerInv, OnlyMultibyteRefused

\* LISTEN, on either of the two channels.
LEMMA ListenInv ==
  ASSUME IInv, NEW c \in Clients, NEW n \in Names, WorkListens(c, n) \/ RunnerListens(c, n)
  PROVE  IInv'
<1>. DEFINE ch == channel'[c]
<1>1. ch \in {Identifier(GoChannel(n)), Identifier(SqlChannel(n))}
  BY DEF IInv, TypeOK, WorkListens, RunnerListens, Listen
<1>2. ch \in ChannelName
  BY <1>1, ChannelOfQueue
<1>3. serves[c] = NULL /\ woken[c] = 0 /\ sent[n] \in 0 .. MaxSends
  BY DEF IInv, TypeOK, ListenerInv, WorkListens, RunnerListens, Listen
<1>4. /\ serves' = [serves EXCEPT ![c] = n]
      /\ channel' = [channel EXCEPT ![c] = ch]
      /\ since' = [since EXCEPT ![c] = sent[n]]
      /\ sent' = sent /\ refused' = refused /\ woken' = woken
  BY DEF IInv, TypeOK, WorkListens, RunnerListens, Listen
<1>. HIDE DEF ch
<1>5. TypeOK'
  BY <1>2, <1>3, <1>4 DEF IInv, TypeOK, ChannelName
<1>6. ListenerInv'
  <2>. SUFFICES ASSUME NEW d \in Clients
       PROVE /\ serves'[d] = NULL => channel'[d] = NULL /\ woken'[d] = 0
             /\ serves'[d] # NULL =>
                  /\ channel'[d] \in {Identifier(GoChannel(serves'[d])), Identifier(SqlChannel(serves'[d]))}
                  /\ since'[d] <= sent'[serves'[d]]
                  /\ woken'[d] = sent'[serves'[d]] - since'[d]
    BY DEF ListenerInv, Identifier, GoChannel, SqlChannel, Accepted, Bytes, Plain, Hashed, Cut
  <2>1. CASE d = c
    BY <1>1, <1>3, <1>4, <2>1, NameAssumption DEF IInv, TypeOK, ch
  <2>2. CASE d # c
    BY <1>4, <2>2 DEF IInv, TypeOK, ListenerInv
  <2>. QED BY <2>1, <2>2
<1>. QED BY <1>4, <1>5, <1>6 DEF IInv, OnlyMultibyteRefused

LEMMA LeaveInv ==
  ASSUME IInv, NEW c \in Clients, Leave(c)
  PROVE  IInv'
<1>1. TypeOK'
  BY NameAssumption DEF IInv, TypeOK, Leave
<1>2. ListenerInv'
  BY DEF IInv, TypeOK, ListenerInv, Leave
<1>. QED BY <1>1, <1>2 DEF IInv, OnlyMultibyteRefused, Leave

\* A send wakes the clients of its queue and no others.
LEMMA SendInv ==
  ASSUME IInv, NEW n \in Names, Send(n)
  PROVE  IInv'
<1>1. ASSUME NEW c \in Clients
      PROVE  channel[c] = SqlChannel(n) <=> serves[c] = n
  <2>1. CASE serves[c] = NULL
    BY <2>1, NameAssumption, ChannelOfQueue DEF IInv, ListenerInv, ChannelName
  <2>2. CASE serves[c] # NULL
    <3>1. serves[c] \in Names
      BY <2>2 DEF IInv, TypeOK
    <3>2. channel[c] \in {Identifier(GoChannel(serves[c])), Identifier(SqlChannel(serves[c]))}
      BY <2>2 DEF IInv, ListenerInv
    <3>3. channel[c].name = serves[c]
      BY <3>1, <3>2, ChannelOfQueue
    <3>4. serves[c] = n => channel[c] = SqlChannel(n)
      BY <3>2, SameChannel DEF Send
    <3>. QED BY <3>3, <3>4, ChannelOfQueue
  <2>. QED BY <2>1, <2>2
<1>2. ASSUME NEW c \in Clients
      PROVE  woken'[c] = IF serves[c] = n THEN woken[c] + 1 ELSE woken[c]
  BY <1>1 DEF Send
<1>3. /\ sent' = [sent EXCEPT ![n] = sent[n] + 1] /\ sent[n] < MaxSends
      /\ refused' = refused /\ serves' = serves /\ channel' = channel /\ since' = since
      /\ woken' \in [Clients -> {woken'[c] : c \in Clients}]
  BY DEF Send
<1>4. sent' \in [Names -> 0 .. MaxSends]
  BY <1>3, NameAssumption DEF IInv, TypeOK
<1>5. ASSUME NEW c \in Clients
      PROVE  woken'[c] \in 0 .. MaxSends
  <2>1. CASE serves[c] = n
    <3>1. woken[c] = sent[n] - since[c] /\ since[c] \in Nat
      BY <2>1, NameAssumption DEF IInv, TypeOK, ListenerInv
    <3>. QED BY <1>2, <1>3, <2>1, <3>1, NameAssumption DEF IInv, TypeOK
  <2>2. CASE serves[c] # n
    BY <1>2, <2>2 DEF IInv, TypeOK
  <2>. QED BY <2>1, <2>2
<1>6. TypeOK'
  BY <1>3, <1>4, <1>5 DEF IInv, TypeOK
<1>7. ListenerInv'
  <2>. SUFFICES ASSUME NEW c \in Clients
       PROVE /\ serves[c] = NULL => channel[c] = NULL /\ woken'[c] = 0
             /\ serves[c] # NULL =>
                  /\ channel[c] \in {Identifier(GoChannel(serves[c])), Identifier(SqlChannel(serves[c]))}
                  /\ since[c] <= sent'[serves[c]]
                  /\ woken'[c] = sent'[serves[c]] - since[c]
    BY <1>3 DEF ListenerInv, Identifier, GoChannel, SqlChannel, Accepted, Bytes, Plain, Hashed, Cut
  <2>1. CASE serves[c] = n
    BY <1>2, <1>3, <2>1, NameAssumption DEF IInv, TypeOK, ListenerInv
  <2>2. CASE serves[c] # n
    BY <1>2, <1>3, <2>2 DEF IInv, TypeOK, ListenerInv
  <2>. QED BY <2>1, <2>2
<1>. QED BY <1>3, <1>6, <1>7 DEF IInv, OnlyMultibyteRefused

LEMMA SendRefusedInv ==
  ASSUME IInv, NEW n \in Names, SendRefused(n)
  PROVE  IInv'
<1>1. n.chars < n.bytes
  BY NameFacts
  DEF SendRefused, Accepted, Bytes, SqlChannel, Plain, Hashed, Prefix, Limit, HashChars
<1>2. TypeOK' /\ ListenerInv'
  BY DEF IInv, TypeOK, ListenerInv, SendRefused
<1>. QED BY <1>1, <1>2 DEF IInv, OnlyMultibyteRefused, SendRefused

LEMMA NextInv == IInv /\ [Next]_vars => IInv'
<1>. SUFFICES ASSUME IInv, [Next]_vars PROVE IInv'
  OBVIOUS
<1>1. CASE UNCHANGED vars
  BY <1>1 DEF vars, IInv, TypeOK, ListenerInv, OnlyMultibyteRefused
<1>2. CASE Next
  BY <1>2, ListenInv, LeaveInv, SendInv, SendRefusedInv DEF Next
<1>. QED BY <1>1, <1>2

-----------------------------------------------------------------------------
\* The inductive invariant holds in every reachable state.
THEOREM Invariance == Spec => []IInv
BY InitInv, NextInv, PTL DEF Spec

\* TypeOK: nobody is woken more often than there were sends.
THEOREM ChannelTypes == Spec => []TypeOK
BY Invariance, PTL DEF IInv

\* WokenForOwnQueue: the channel Work listens on and the one boss.send notifies are
\* the same, and no other queue's, for every name that boss.send accepts.
THEOREM OwnQueueOnly == Spec => []WokenForOwnQueue
<1>1. IInv => WokenForOwnQueue
  BY DEF IInv, ListenerInv, WokenForOwnQueue
<1>. QED BY <1>1, Invariance, PTL

\* OnlyMultibyteRefused: a name in which every character has one byte is never
\* refused, whatever its length.
THEOREM RefusalNeedsMultibyte == Spec => []OnlyMultibyteRefused
BY Invariance, PTL DEF IInv

=============================================================================
