------------------------------- MODULE Channel -------------------------------
(***************************************************************************)
(* Which LISTEN/NOTIFY channel a queue uses.  The name is computed twice:  *)
(* by boss.channel, for pg_notify and for the scenario runner, and by      *)
(* Channel of the Go client, for LISTEN.  Both keep a short name and hash  *)
(* a long one; PostgreSQL refuses to notify on a channel longer than 63    *)
(* bytes and shortens an identifier that is.                               *)
(*                                                                         *)
(* A queue name is its length in characters and in bytes; id tells names   *)
(* of the same length apart.  md5 is taken to be injective.                *)
(***************************************************************************)
EXTENDS Integers, FiniteSets

CONSTANTS Names,     \* queue names
          Clients,   \* sessions that listen
          MaxSends,  \* bound on the sends to one queue
          NULL

ASSUME NameAssumption ==
  /\ Names \subseteq [id : Nat, chars : Nat, bytes : Nat]
  /\ \A n \in Names : n.chars <= n.bytes /\ n.bytes <= 4 * n.chars
  /\ NULL \notin Names
  /\ NULL \notin [kind : {"plain", "hashed", "cut"}, name : Names]
  /\ MaxSends \in Nat

VARIABLES sent,      \* notifications committed for each queue
          refused,   \* queues for which boss.send raised an error
          serves,    \* the queue each client listens for, NULL if none
          channel,   \* the channel it listens on
          since,     \* sent[serves[c]] when it began to listen
          woken      \* notifications it has received

vars == <<sent, refused, serves, channel, since, woken>>

Limit     == 63            \* NAMEDATALEN - 1
Prefix    == 5             \* 'boss_'
HashChars == 32            \* md5 in hexadecimal

Plain(n)  == [kind |-> "plain", name |-> n]
Hashed(n) == [kind |-> "hashed", name |-> n]
Cut(n)    == [kind |-> "cut", name |-> n]

Bytes(ch) == Prefix + (IF ch.kind = "plain" THEN ch.name.bytes ELSE HashChars)

SqlChannel_NameOnly(n) == IF n.chars <= Limit THEN Plain(n) ELSE Hashed(n)

\* boss.channel: length() counts characters.
SqlChannel(n) == IF Prefix + n.chars <= Limit THEN Plain(n) ELSE Hashed(n)

GoChannel_Shorter(n) == IF Prefix + n.bytes < Limit THEN Plain(n) ELSE Hashed(n)

\* Channel of the Go client: len counts bytes.
GoChannel(n) == IF Prefix + n.bytes <= Limit THEN Plain(n) ELSE Hashed(n)

\* pg_notify raises "channel name too long".
Accepted(ch) == Bytes(ch) <= Limit

\* LISTEN takes an identifier, which PostgreSQL truncates.
Identifier(ch) == IF Accepted(ch) THEN ch ELSE Cut(ch.name)

-----------------------------------------------------------------------------
\* Types; no client is ever woken more often than its queue was sent to.
TypeOK ==
  /\ sent \in [Names -> 0 .. MaxSends]
  /\ refused \subseteq Names
  /\ serves \in [Clients -> Names \cup {NULL}]
  /\ channel \in [Clients -> [kind : {"plain", "hashed", "cut"}, name : Names] \cup {NULL}]
  /\ since \in [Clients -> 0 .. MaxSends]
  /\ woken \in [Clients -> 0 .. MaxSends]

Init ==
  /\ sent = [n \in Names |-> 0]
  /\ refused = {}
  /\ serves = [c \in Clients |-> NULL]
  /\ channel = [c \in Clients |-> NULL]
  /\ since = [c \in Clients |-> 0]
  /\ woken = [c \in Clients |-> 0]

Listen(c, n, ch) ==
  /\ serves[c] = NULL
  /\ serves' = [serves EXCEPT ![c] = n]
  /\ channel' = [channel EXCEPT ![c] = Identifier(ch)]
  /\ since' = [since EXCEPT ![c] = sent[n]]
  /\ UNCHANGED <<sent, refused, woken>>

\* Client.Work
WorkListens(c, n) == Listen(c, n, GoChannel(n))

\* consume_wait of the scenario runner asks the database for the channel.
RunnerListens(c, n) == Listen(c, n, SqlChannel(n))

\* The connection is closed.
Leave(c) ==
  /\ serves[c] # NULL
  /\ serves' = [serves EXCEPT ![c] = NULL]
  /\ channel' = [channel EXCEPT ![c] = NULL]
  /\ since' = [since EXCEPT ![c] = 0]
  /\ woken' = [woken EXCEPT ![c] = 0]
  /\ UNCHANGED <<sent, refused>>

\* boss.send: everybody who listens on the channel is woken.
Send(n) ==
  /\ sent[n] < MaxSends
  /\ Accepted(SqlChannel(n))
  /\ sent' = [sent EXCEPT ![n] = @ + 1]
  /\ woken' = [c \in Clients |->
                 IF channel[c] = SqlChannel(n) THEN woken[c] + 1 ELSE woken[c]]
  /\ UNCHANGED <<refused, serves, channel, since>>

\* boss.send fails as a whole: the job is not inserted either.
SendRefused(n) ==
  /\ ~Accepted(SqlChannel(n))
  /\ refused' = refused \cup {n}
  /\ UNCHANGED <<sent, serves, channel, since, woken>>

Next ==
  \/ \E c \in Clients, n \in Names : WorkListens(c, n) \/ RunnerListens(c, n)
  \/ \E c \in Clients : Leave(c)
  \/ \E n \in Names : Send(n) \/ SendRefused(n)

Spec == Init /\ [][Next]_vars

-----------------------------------------------------------------------------
\* A listener is woken exactly once for every job sent to its queue since it
\* began to listen, whichever of the two computations named its channel, and
\* never for a job of another queue.
WokenForOwnQueue ==
  \A c \in Clients : serves[c] # NULL => woken[c] = sent[serves[c]] - since[c]

\* Only a name with characters of several bytes can make boss.send fail.
OnlyMultibyteRefused == \A n \in refused : n.chars < n.bytes

\* A queue whose name is too long for a channel falls back to a hashed one, so
\* sending to a queue never fails because of its name.
NamesAccepted == refused = {}

=============================================================================
