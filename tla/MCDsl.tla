------------------------------- MODULE MCDsl -------------------------------
(***************************************************************************)
(* Files for TLC: up to MaxLines lines behind a header, out of a set with  *)
(* at least one line of every form and one of every kind of mistake.       *)
(***************************************************************************)
EXTENDS Dsl

CONSTANTS MaxLines

MCNames    == {"q"}
MCNumbers  == -5 .. 5
MCTexts    == {"v"}
MCClients  == {2}
MCDefaults == [k \in QueueKeys |-> IF k = "retryLimit" THEN 1 ELSE 0]

W(w) == Word(w)
Q    == Word("q")
Title == <<W("scenario"), W("q")>>

\* Lines that change the tables.
Effective ==
  {<<W("create"), W("queue"), Q>>,
   <<W("create"), W("queue"), Q, Opt("retryLimit", 0), Opt("retryDelay", 2), Opt("retryLimit", -3)>>,
   <<W("create"), W("queue"), Q, Opt("retryLimit", 0), Opt("retryLimit", -2), Opt("retentionSeconds", 3)>>,
   <<Client(2), W("delete"), W("queue"), Q>>,
   <<W("send"), Q>>,
   <<W("push"), Q, Opt("retryLimit", 1), Opt("retryLimit", -1), W("data"), Json("v")>>,
   <<W("push"), Q, W("message"), Quoted("v"), Opt("priority", -2), Opt("startAfter", 1)>>,
   <<W("push"), Q, Opt("priority", 2)>>,
   <<W("push"), Q, Opt("startAfter", -1)>>}

\* One of every other command, with and without what may follow, and names that are
\* keywords.
Plain ==
  {<<W("maintain")>>,
   <<W("spawn"), W("consume"), Q, W("->"), Q>>,
   <<W("fetch"), Q, W("->"), Q, W("within"), Duration(1, "ms")>>,
   <<Client(2), W("complete"), Q, W("output"), Json("v")>>,
   <<W("fail"), Q>>,
   <<W("await"), Q>>,
   <<W("assert"), W("queue"), W("queue"), W("empty")>>,
   <<W("assert"), W("queue"), Q, W("size"), Num(1)>>,
   <<W("assert"), W("exactly_one_claimed"), Q, Q>>,
   <<W("assert"), W("queue"), W("=="), Q>>,
   <<W("assert"), W("exactly_one_claimed"), W("=="), Q>>,
   <<W("check"), Q, W("state"), W("retry")>>,
   <<W("check"), Q, W("ack"), W("within"), Duration(2, "m")>>,
   <<W("check"), Q, W("data"), Json("v")>>,
   <<W("check"), Q, W("gone")>>,
   <<W("check"), W("empty"), W("empty")>>}

\* An unknown option, one out of range, one of another command, options behind data,
\* what is left over, what is missing, a second header.
Mistaken ==
  {<<W("create"), W("queue"), Q, Opt("capacity", 1)>>,
   <<W("create"), W("queue"), Q, Opt("retryLimit", 5)>>,
   <<W("push"), Q, Opt("retentionSeconds", 1)>>,
   <<W("push"), Q, W("data"), Json("v"), Opt("priority", 1)>>,
   <<W("maintain"), Q>>,
   <<W("fail"), Q, W("output")>>,
   <<W("fetch"), Q, W("->"), Q, W("within"), Num(1)>>,
   <<W("assert"), W("exactly_one_claimed")>>,
   <<W("assert"), W("exactly_one_claimed"), Q, W("==")>>,
   <<W("check"), Q, W("state"), Q>>,
   <<Client(2)>>,
   <<Client(3), W("maintain")>>,
   Title}

Skipped == {<< >>, <<Hash, Q>>}

\* Every line of some tokens behind the first ones, for each command.
UpTo(n, S) == UNION {[1 .. k -> S] : k \in 0 .. n}

Behind(heads, n, S) == {h \o t : h \in heads, t \in UpTo(n, S)}

Lines ==
  Behind({<<W("assert")>>}, 4,
         {Q, W("queue"), W("exactly_one_claimed"), W("=="), W("empty"), W("size"), Num(1)})
  \cup Behind({<<W("check")>>}, 3,
              {Q, W("state"), W("retry"), W("ack"), W("within"), W("data"), Json("v"),
               W("gone"), W("empty")})
  \cup Behind({<<W("check"), Q, W("ack")>>}, 2, {W("within"), Duration(1, "s"), Num(1), Q})
  \cup Behind({<<W("push")>>}, 4,
              {Q, W("message"), Quoted("v"), W("data"), Json("v"), Opt("priority", 1),
               Opt("retentionSeconds", 1)})
  \cup Behind({<<W("consume")>>, <<W("spawn"), W("consume")>>}, 5,
              {Q, W("->"), W("within"), Duration(1, "s")})
  \cup Behind({<<w>> : w \in Words({"ack", "fail", "create", "delete", "await", "maintain"})}, 3,
              {Q, W("queue"), W("output"), Json("v"), Opt("retryLimit", 1)})

MCFiles ==
  {<<Title, l>> : l \in Lines} \cup
  {s \o <<Title>> \o t : s \in {<< >>, <<(<< >>)>>},
                        t \in UNION {[1 .. n -> Effective] : n \in 0 .. MaxLines}}
  \cup {<<Title>> \o t : t \in UNION {[1 .. n -> Skipped \cup Mistaken \cup Plain] : n \in 0 .. 2}}
  \cup {<<l>> \o t : l \in Skipped \cup {<<W("create"), W("queue"), Q>>},
                     t \in {<< >>, <<Title>>, <<Title, <<W("maintain")>>>>}}

=============================================================================
