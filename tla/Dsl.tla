--------------------------------- MODULE Dsl ---------------------------------
(***************************************************************************)
(* The scenario files of dsltest: parse_scenario reads a file line by line *)
(* and stops at the first error; the runner then executes the statements,  *)
(* and the options in them become columns of the queue and of the jobs.    *)
(*                                                                         *)
(* A line is a sequence of tokens, words being separated by space1; what a *)
(* token is made of is left out.  The commands are a table: the tokens a   *)
(* command begins with, and the items that may follow.  What the clients   *)
(* and the jobs then do is in Scenario and Boss; here a statement that     *)
(* waits, fetches or checks just succeeds or fails.                        *)
(***************************************************************************)
EXTENDS Options, SequencesExt

CONSTANTS Names,     \* names of queues and variables
          Numbers,   \* integers in a file
          Texts,     \* JSON values in a file
          Clients,   \* numbers of clients
          Defaults,  \* the defaults of create_queue, by key
          Files      \* the files considered: sequences of lines

VARIABLES file,        \* the lines of the file
          pos,         \* how many of them have been read
          name,        \* the name in the header, NULL before it
          statements,  \* the statements so far
          done,        \* how many of them have been executed
          blamed,      \* the line of the error, NULL without one
          queue,       \* the columns of every queue there is
          job          \* the columns of the last job sent, NULL before

vars == <<file, pos, name, statements, done, blamed, queue, job>>

-----------------------------------------------------------------------------
(***************************************************************************)
(* Tokens.                                                                 *)
(***************************************************************************)

Word(w)        == [word |-> w]
Opt(k, n)      == [key |-> k, number |-> n]
Json(v)        == [json |-> v]
Quoted(v)      == [quoted |-> v]
Num(n)         == [num |-> n]
Duration(n, u) == [amount |-> n, unit |-> u]
Client(n)      == [client |-> n]
Hash           == [comment |-> TRUE]

Token ==
  [word : STRING] \cup [key : STRING, number : Int] \cup [json : Texts] \cup [quoted : Texts]
    \cup [num : Int] \cup [amount : Int, unit : STRING] \cup [client : Nat] \cup [comment : {TRUE}]

Words(S) == {Word(w) : w \in S}
L(w)     == Words({w})

Keywords == {"scenario", "create", "delete", "queue", "maintain", "push", "send", "message",
             "data", "consume", "fetch", "spawn", "within", "await", "ack", "complete",
             "fail", "output", "assert", "empty", "size", "exactly_one_claimed", "check",
             "state", "gone"}

\* A keyword is an identifier, too.
Idents    == Words(Names \cup Keywords)

ASSUME FileAssumption ==
  /\ Files \subseteq Seq(Seq(Token))
  /\ Defaults \in [QueueKeys -> I32]
  /\ NULL \notin Int /\ NULL \notin Idents

States    == Words({"created", "retry", "active", "completed", "cancelled", "failed"})
\* try_map(parse::<i64>): what is out of range is no integer.
OptsOf(K) == {Opt(k, n) : k \in K, n \in Numbers \cap I64}
Ints      == {Num(n) : n \in Numbers \cap I64}
Jsons     == {Json(v) : v \in Texts}
Quotes    == {Quoted(v) : v \in Texts}
Durations == {Duration(n, u) : n \in Numbers \cap Nat, u \in {"ms", "s", "m"}}
Numbered == {Client(n) : n \in Clients}

-----------------------------------------------------------------------------
(***************************************************************************)
(* The grammar.                                                            *)
(***************************************************************************)

\* A command: the sets its first tokens are of, and between least and most of the
\* items that may follow, an item being a sequence of sets as well.
Form(c, head, items, least, most) ==
  [command |-> c, head |-> head, items |-> items, least |-> least, most |-> most]

Fixed(c, head)          == Form(c, head, {}, 0, 0)
Optional(c, head, item) == Form(c, head, {item}, 0, 1)
Many                    == 99

Within == <<L("within"), Durations>>
Output == <<L("output"), Jsons>>

HeaderForm == <<L("scenario"), Idents>>

\* In the order of alt in command, assert_cmd and check_cmd.
Grammar ==
  << Form("CreateQueue", <<L("create"), L("queue"), Idents>>, {<<OptsOf(QueueKeys)>>}, 0, Many),
     Fixed("DeleteQueue", <<L("delete"), L("queue"), Idents>>),
     Fixed("Maintain", <<L("maintain")>>),
     Form("Push", <<Words({"push", "send"}), Idents>>,
          {<<L("message"), Quotes>>, <<L("data"), Jsons>>, <<OptsOf(SendKeys)>>}, 0, Many),
     Optional("SpawnConsume", <<L("spawn"), L("consume"), Idents, L("->"), Idents>>, Within),
     Optional("Consume", <<Words({"consume", "fetch"}), Idents, L("->"), Idents>>, Within),
     Optional("Ack", <<Words({"ack", "complete"}), Idents>>, Output),
     Optional("Fail", <<L("fail"), Idents>>, Output),
     Fixed("Await", <<L("await"), Idents>>),
     Fixed("AssertQueueEmpty", <<L("assert"), L("queue"), Idents, L("empty")>>),
     Fixed("AssertQueueSize", <<L("assert"), L("queue"), Idents, L("size"), Ints>>),
     Form("AssertExactlyOneClaimed", <<L("assert"), L("exactly_one_claimed")>>,
          {<<Idents>>}, 1, Many),
     Fixed("AssertVarEq", <<L("assert"), Idents, L("=="), Idents>>),
     Fixed("CheckState", <<L("check"), Idents, L("state"), States>>),
     Optional("CheckAck", <<L("check"), Idents, L("ack")>>, Within),
     Fixed("CheckData", <<L("check"), Idents, L("data"), Jsons>>),
     Fixed("CheckGone", <<L("check"), Idents, L("gone")>>),
     Fixed("CheckEmpty", <<L("check"), Idents, L("empty")>>) >>

-----------------------------------------------------------------------------
(***************************************************************************)
(* Parsing one line.                                                       *)
(***************************************************************************)

\* Pattern p reads line t from position i on.  json_value takes the rest of the line,
\* so a JSON value must be the last token.
Reads(p, t, i) ==
  /\ i + Len(p) - 1 <= Len(t)
  /\ \A k \in 1 .. Len(p) : /\ t[i + k - 1] \in p[k]
                            /\ p[k] = Jsons => i + k - 1 = Len(t)

\* repeat and opt: the position behind the items that follow position i, and how many
\* there are.
Items(f, t) ==
  LET Read[i \in 1 .. Len(t) + 1, n \in 0 .. Len(t)] ==
        LET ps == {p \in f.items : Reads(p, t, i)}
        IN  IF n < f.most /\ ps # {}
            THEN Read[i + Len(CHOOSE p \in ps : TRUE), n + 1]
            ELSE [end |-> i, count |-> n]
  IN  Read[Len(f.head) + 1, 0]

Parses_Repeat0(f, t) == Reads(f.head, t, 1)

Parses(f, t) == Reads(f.head, t, 1) /\ Items(f, t).count >= f.least

\* alt takes the first form that parses, whether or not it reads the whole line.
FormOf(t) ==
  LET ok == {k \in DOMAIN Grammar : Parses(Grammar[k], t)}
  IN  IF ok = {} THEN NULL ELSE Grammar[CHOOSE k \in ok : \A m \in ok : k <= m]

\* No "unexpected trailing input".
AllRead(f, t) == Items(f, t).end = Len(t) + 1

HasPrefix(t) == t # << >> /\ t[1] \in Numbered
ClientOf(t)  == IF HasPrefix(t) THEN t[1].client ELSE 1
Rest(t)      == IF HasPrefix(t) THEN Tail(t) ELSE t

IsStatement(t) == FormOf(Rest(t)) # NULL /\ AllRead(FormOf(Rest(t)), Rest(t))

IsHeader(t)  == Reads(HeaderForm, t, 1) /\ Len(t) = Len(HeaderForm)

IsSkipped(t) == IF t = << >> THEN TRUE ELSE t[1] = Hash

-----------------------------------------------------------------------------
(***************************************************************************)
(* The statement of a line.                                                *)
(***************************************************************************)

OptionKeys == QueueKeys \cup SendKeys

NoOptions == [k \in OptionKeys |-> NULL]

SetOption_First(o, k, n) == IF o[k] = NULL THEN [o EXCEPT ![k] = n] ELSE o

\* QueueOptions::set and SendOptions::set; to_json leaves out what was never set.
SetOption(o, k, n) == [o EXCEPT ![k] = n]

\* They are set in the order of the line.
OptionsOf(t) ==
  LET After[n \in 0 .. Len(t)] ==
        IF n = 0 THEN NoOptions
        ELSE IF "key" \in DOMAIN t[n] THEN SetOption(After[n - 1], t[n].key, t[n].number)
        ELSE After[n - 1]
  IN  After[Len(t)]

\* The arguments are what the command begins with, less the keywords.  The values behind
\* message, data, within and output and the variables of exactly_one_claimed reach no
\* column and are left out.
Statement(line, t) ==
  LET u == Rest(t)
      f == FormOf(u)
      IsValue(k) == ~(f.head[k] \subseteq Words(Keywords \cup {"->", "=="}))
  IN  [line |-> line, client |-> ClientOf(t), command |-> f.command,
       args  |-> [n \in 1 .. Cardinality({k \in DOMAIN f.head : IsValue(k)}) |->
                    u[CHOOSE k \in DOMAIN f.head :
                        /\ IsValue(k)
                        /\ Cardinality({m \in 1 .. k : IsValue(m)}) = n]],
       options |-> OptionsOf(t)]

-----------------------------------------------------------------------------
(***************************************************************************)
(* Steps.                                                                  *)
(***************************************************************************)

Init ==
  /\ file \in Files
  /\ pos = 0
  /\ name = NULL
  /\ statements = << >>
  /\ done = 0
  /\ blamed = NULL
  /\ queue = << >>
  /\ job = NULL

LineNo_OfStatement(i) == Len(statements) + 1

LineNo(i) == i + 1

\* The next line to count.
Line == file[pos + 1]

Reading == blamed = NULL /\ pos < Len(file)

SkipLine ==
  /\ Reading /\ IsSkipped(Line)
  /\ pos' = pos + 1
  /\ UNCHANGED <<file, name, statements, done, blamed, queue, job>>

ReadHeader ==
  /\ Reading /\ ~IsSkipped(Line)
  /\ name = NULL /\ IsHeader(Line)
  /\ name' = Line[2]
  /\ pos' = pos + 1
  /\ UNCHANGED <<file, statements, done, blamed, queue, job>>

ReadStatement ==
  /\ Reading /\ ~IsSkipped(Line)
  /\ name # NULL /\ IsStatement(Line)
  /\ statements' = Append(statements, Statement(LineNo(pos), Line))
  /\ pos' = pos + 1
  /\ UNCHANGED <<file, name, done, blamed, queue, job>>

\* Line 0 stands for the file as a whole.
ParseError ==
  /\ \/ /\ Reading /\ ~IsSkipped(Line)
        /\ ~(IF name = NULL THEN IsHeader(Line) ELSE IsStatement(Line))
        /\ blamed' = LineNo(pos)
     \/ blamed = NULL /\ pos = Len(file) /\ name = NULL /\ blamed' = 0
  /\ UNCHANGED <<file, pos, name, statements, done, queue, job>>

Parsed == blamed = NULL /\ pos = Len(file) /\ name # NULL

Running(c) == Parsed /\ done < Len(statements) /\ statements[done + 1].command = c

Succeeds == done' = done + 1 /\ UNCHANGED blamed

\* A statement gets an error from the database, or its client no session.  Nothing is
\* executed behind it, so what it has left there does not count.
Fails == blamed' = statements[done + 1].line /\ UNCHANGED <<done, queue, job>>

\* A queue that exists stays as it is: ON CONFLICT DO NOTHING.
CreateQueue ==
  /\ Running("CreateQueue")
  /\ LET st == statements[done + 1]
         q  == st.args[1]
     IN  \/ /\ queue' = [x \in DOMAIN queue \cup {q} |->
                           IF x \in DOMAIN queue THEN queue[x]
                           ELSE QueueColumns(st.options, Defaults)]
            /\ Succeeds /\ UNCHANGED job
         \/ Fails
  /\ UNCHANGED <<file, pos, name, statements>>

DeleteQueue ==
  /\ Running("DeleteQueue")
  /\ \/ /\ queue' = Restrict(queue, DOMAIN queue \ {statements[done + 1].args[1]})
        /\ Succeeds /\ UNCHANGED job
     \/ Fails
  /\ UNCHANGED <<file, pos, name, statements>>

\* Fails without the queue, and on a cast.
Push ==
  /\ Running("Push")
  /\ LET st == statements[done + 1]
         q  == st.args[1]
     IN  \/ /\ q \in DOMAIN queue /\ SendAccepts(st.options)
            /\ job' = SendColumns(st.options, queue[q])
            /\ Succeeds /\ UNCHANGED queue
         \/ Fails
  /\ UNCHANGED <<file, pos, name, statements>>

\* Any other statement.
Other ==
  /\ \E st \in ToSet(statements) : ~(st.command \in {"CreateQueue", "DeleteQueue", "Push"})
                                   /\ Running(st.command)
  /\ \/ Succeeds /\ UNCHANGED <<queue, job>>
     \/ Fails
  /\ UNCHANGED <<file, pos, name, statements>>

Next ==
  \/ SkipLine \/ ReadHeader \/ ReadStatement \/ ParseError
  \/ CreateQueue \/ DeleteQueue \/ Push \/ Other

Spec == Init /\ [][Next]_vars

-----------------------------------------------------------------------------
(***************************************************************************)
(* Properties.                                                             *)
(***************************************************************************)

\* The type invariant.  Whatever number a file gives, the columns are SQL integers.
TypeOK ==
  /\ pos \in 0 .. Len(file)
  /\ name \in Idents \cup {NULL}
  /\ done \in 0 .. Len(statements)
  /\ blamed \in 0 .. Len(file) \cup {NULL}
  /\ \A q \in DOMAIN queue : \A k \in QueueKeys : queue[q][k] \in I32
  /\ job # NULL => \A k \in SendKeys : job[k] \in I32

\* The lines that count, the first one being the header.
Told     == {i \in 1 .. Len(file) : ~IsSkipped(file[i])}
Foremost == {i \in Told : \A k \in Told : i <= k}
Wrong    == {i \in Foremost : ~IsHeader(file[i])} \cup
            {i \in Told \ Foremost : ~IsStatement(file[i])}

\* parse_scenario (blank lines and comments skipped, numbers counted by hand): every
\* line that counts is a statement under the number it has in the file.  A file with a
\* wrong line is refused for the first one of them and nothing of it is executed; else
\* an error is the next statement's, with all before it executed.
EveryLineCounts ==
  /\ blamed # NULL =>
       IF Told = {} THEN blamed = 0
       ELSE IF Wrong # {} THEN done = 0 /\ blamed \in Wrong /\ \A i \in Wrong : blamed <= i
       ELSE blamed \in Told /\ Cardinality({i \in Told \ Foremost : i < blamed}) = done
  /\ Parsed => /\ Wrong = {}
               /\ {statements[n].line : n \in DOMAIN statements} = Told \ Foremost
               /\ Len(statements) = Cardinality(Told \ Foremost)

\* Line t as a command of form f: what it begins with, and behind that as many items as
\* there may be, that begin at the positions S.
IsLine(f, t) ==
  /\ Reads(f.head, t, 1)
  /\ \E S \in SUBSET (Len(f.head) + 1 .. Len(t)) :
       LET ends == S \cup {Len(t) + 1}
       IN  /\ Len(f.head) + 1 \in ends
           /\ Cardinality(S) \in f.least .. f.most
           /\ \A i \in S : \E p \in f.items :
                Reads(p, t, i) /\ i + Len(p) \in ends /\ ends \cap (i + 1 .. i + Len(p) - 1) = {}

Readings(t) == {f.command : f \in {f \in ToSet(Grammar) : IsLine(f, Rest(t))}}

\* alt and repeat (parser.rs:99-114) try one command after the other and take as much as
\* they can get.  No command gets in the way of another, although they share their first
\* words and a keyword may be a name: a line that some way of reading makes a command is
\* this command, one that none does is refused, and nothing of a line is left out.
EveryReadingFound ==
  /\ \A st \in ToSet(statements) : Readings(file[st.line]) = {st.command}
  /\ blamed # NULL /\ blamed = pos + 1 /\ name # NULL => Readings(file[blamed]) = {}

\* The places of the line of statement n that give option k, and the last number there.
Text(n) == file[statements[n].line]

Given(n, k) == {i \in DOMAIN Text(n) : "key" \in DOMAIN Text(n)[i] /\ Text(n)[i].key = k}

LastOf(S) == CHOOSE i \in S : \A m \in S : m <= i

LastGiven(n, k) == Text(n)[LastOf(Given(n, k))].number

About(n, c, q) == statements[n].command = c /\ statements[n].args[1] = q

\* as_i32 (lib.rs:42-44) and the casts of send (schema.rs:97-108), behind the options of
\* ast.rs: a queue has what the first create since it was last deleted gave last for an
\* option, or the default, if that fits the column.  The last job has what its send gave
\* last, whatever that is, or what its queue had.
StoredAsWritten ==
  /\ \A q \in DOMAIN queue :
       \E n \in 1 .. done :
         /\ About(n, "CreateQueue", q)
         /\ \A m \in n .. done : ~About(m, "DeleteQueue", q)
         /\ \A m \in 1 .. n - 1 : About(m, "CreateQueue", q) =>
              \E d \in m .. n : About(d, "DeleteQueue", q)
         /\ \A k \in QueueKeys :
              IF Given(n, k) = {} THEN queue[q][k] = Defaults[k]
              ELSE LastGiven(n, k) \in I32 => queue[q][k] = LastGiven(n, k)
  /\ job # NULL =>
       \E n \in 1 .. done :
         /\ statements[n].command = "Push"
         /\ \A m \in n + 1 .. done : statements[m].command # "Push"
         /\ \A k \in SendKeys : Given(n, k) # {} => job[k] = LastGiven(n, k)
         /\ statements[n].args[1] \in DOMAIN queue
            /\ (\A m \in n .. done : ~About(m, "DeleteQueue", statements[n].args[1])) =>
              \A k \in SendKeys \cap QueueKeys :
                Given(n, k) = {} => job[k] = queue[statements[n].args[1]][k]

=============================================================================
