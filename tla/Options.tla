------------------------------- MODULE Options -------------------------------
(***************************************************************************)
(* The options of boss.create_queue and boss.send on their way from jsonb  *)
(* numbers to the integer columns: create_queue reads them in Rust, send   *)
(* with casts in SQL.  The integer types are as wide as the constants say. *)
(***************************************************************************)
EXTENDS Integers

CONSTANTS Half32,  \* half the number of values of an i32 and of SQL integer
          Half64,  \* of an i64
          NULL     \* an option that is absent

ASSUME WidthAssumption ==
  Half32 \in Nat /\ Half64 \in Nat /\ 1 < Half32 /\ Half32 < Half64

I32 == -Half32 .. Half32 - 1
I64 == -Half64 .. Half64 - 1

QueueKeys == {"retryLimit", "retryDelay", "expireInSeconds", "retentionSeconds"}
SendKeys  == {"priority", "startAfter", "retryLimit", "retryDelay", "expireInSeconds"}

-----------------------------------------------------------------------------
Cast32_Unchecked(n) == n

\* n as i32: an i64 that is too large or too small wraps.
Cast32(n) == ((n + Half32) % (2 * Half32)) - Half32

\* The closure as_i32 of create_queue.
AsI32(v, default) == IF v = NULL THEN default ELSE Cast32(v)

QueueColumns(o, default) == [k \in QueueKeys |-> AsI32(o[k], default[k])]

-----------------------------------------------------------------------------
\* What the casts of send let through.  A startAfter that does not match ^[0-9]+$
\* is cast to a time stamp, which no negative number is.
Castable(k, v) == v = NULL \/ (v \in I32 /\ (k = "startAfter" => 0 <= v))

SendAccepts(o) == \A k \in SendKeys : Castable(k, o[k])

\* COALESCE of the option and of the queue's value, or of zero (for startAfter: now).
SendColumns(o, queue) ==
  [k \in SendKeys |-> CASE o[k] # NULL                      -> o[k]
                        [] o[k] = NULL /\ k \in QueueKeys    -> queue[k]
                        [] o[k] = NULL /\ k \notin QueueKeys -> 0]

=============================================================================
