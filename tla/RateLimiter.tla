----------------------------- MODULE RateLimiter -----------------------------
(***************************************************************************)
(* rate_limite_utils: the counter per minute and the leaky bucket of one    *)
(* caller, both kept in Redis.                                              *)
(*                                                                          *)
(* The counter is raised and read in one transaction of Redis. The bucket   *)
(* is read in one call and appended to in another, and what has leaked is   *)
(* dropped in memory only. When Redis does not answer, both let pass.       *)
(***************************************************************************)
EXTENDS Integers, Sequences, FiniteSets

CONSTANTS
  Call,        \* requests, each made once
  Limit,
  Window,      \* units of the clock in a minute; a key lives for one less
  LeakInterval,
  MaxClock, MaxRedisFaults

VARIABLES
  clock,
  limiter,     \* which of the two limiters a call meets
  counter,     \* the count of a minute, and when its key ends
  bucket,      \* times of calls that the bucket took
  call,        \* what each call is at, with its time and the list it has read
  passed,      \* calls that went through
  blind,       \* calls that met a failure of Redis
  raced,       \* calls a, b: b had read the bucket when a was appended
  outrun,      \* calls after which an older one was appended
  redisFaults

limitVars == <<clock, limiter, counter, bucket, call, passed, blind, raced, outrun, redisFaults>>

Init ==
  /\ clock = 0 /\ limiter \in {"counter", "bucket"}
  /\ counter = [m \in 0 .. MaxClock \div Window |-> [n |-> 0, end |-> 0]]
  /\ bucket = << >>
  /\ call = [c \in Call |-> [step |-> "new", at |-> 0, seen |-> << >>]]
  /\ passed = {} /\ blind = {} /\ raced = {} /\ outrun = {} /\ redisFaults = 0

RedisFault == redisFaults < MaxRedisFaults /\ redisFaults' = redisFaults + 1

Minute(t) == t \div Window

To(c, step) == call' = [call EXCEPT ![c].step = step]

\* The time, and with it the key, are taken before Redis is asked.
Arrive(c) ==
  /\ call[c].step = "new"
  /\ call' = [call EXCEPT ![c].step = limiter, ![c].at = clock]
  /\ UNCHANGED <<clock, limiter, counter, bucket, passed, blind, raced, outrun, redisFaults>>

-----------------------------------------------------------------------------
(* rate_limit.                                                              *)

Raised(m) == IF counter[m].end > clock THEN counter[m].n + 1 ELSE 1

Raise(m) ==
  counter' = [counter EXCEPT ![m] = [n |-> Raised(m), end |-> clock + Window - 1]]

Count(c) ==
  /\ call[c].step = "counter"
  /\ LET m == Minute(call[c].at)
     IN  /\ Raise(m)
         /\ IF Raised(m) > Limit
            THEN To(c, "refused") /\ UNCHANGED passed
            ELSE To(c, "passed") /\ passed' = passed \cup {c}
  /\ UNCHANGED <<clock, limiter, bucket, blind, raced, outrun, redisFaults>>

\* The counter may have been raised, and the answer lost.
CountFails(c) ==
  /\ call[c].step = "counter" /\ RedisFault
  /\ Raise(Minute(call[c].at)) \/ UNCHANGED counter
  /\ To(c, "passed") /\ passed' = passed \cup {c} /\ blind' = blind \cup {c}
  /\ UNCHANGED <<clock, limiter, bucket, raced, outrun>>

-----------------------------------------------------------------------------
(* rate_limit_leaky_bucket.                                                 *)

Read(c) ==
  /\ call[c].step = "bucket"
  /\ call' = [call EXCEPT ![c].step = "judge", ![c].seen = bucket]
  /\ UNCHANGED <<clock, limiter, counter, bucket, passed, blind, raced, outrun, redisFaults>>

ReadFails(c) ==
  /\ call[c].step = "bucket" /\ RedisFault
  /\ To(c, "judge") /\ blind' = blind \cup {c}
  /\ UNCHANGED <<clock, limiter, counter, bucket, passed, raced, outrun>>

Leaked(c, i) == call[c].at - call[c].seen[i] > LeakInterval

\* The times from the first that has not leaked.
Kept(c) == {i \in DOMAIN call[c].seen : \E j \in 1 .. i : ~Leaked(c, j)}

TooSoon(c) ==
  LET s == call[c].seen
  IN  Kept(c) # {} /\ call[c].at - s[Len(s)] < LeakInterval

Refuse(c) ==
  /\ call[c].step = "judge" /\ TooSoon(c)
  /\ To(c, "refused")
  /\ UNCHANGED <<clock, limiter, counter, bucket, passed, blind, raced, outrun, redisFaults>>

Appended(c) ==
  /\ bucket' = Append(bucket, call[c].at)
  /\ raced' = raced \cup {<<c, b>> : b \in {b \in Call : call[b].step = "judge"} \ {c}}
  /\ outrun' = outrun \cup {b \in passed : call[b].at > call[c].at}

\* Mutation: what was read is not appended to.
Append_none(c) ==
  /\ call[c].step = "judge" /\ ~TooSoon(c)
  /\ To(c, "passed") /\ passed' = passed \cup {c}
  /\ UNCHANGED <<clock, limiter, counter, bucket, blind, raced, outrun, redisFaults>>

\* The check of bucket_size is left out: the list is that long only when as many calls
\* have overtaken each other.
AppendTime(c) ==
  /\ call[c].step = "judge" /\ ~TooSoon(c)
  /\ To(c, "passed") /\ passed' = passed \cup {c} /\ Appended(c)
  /\ UNCHANGED <<clock, limiter, counter, blind, redisFaults>>

\* The time may have been appended, and the answer lost.
AppendFails(c) ==
  /\ call[c].step = "judge" /\ ~TooSoon(c) /\ RedisFault
  /\ Appended(c) \/ UNCHANGED <<bucket, raced, outrun>>
  /\ To(c, "passed") /\ passed' = passed \cup {c} /\ blind' = blind \cup {c}
  /\ UNCHANGED <<clock, limiter, counter>>

\* Redis answers within a unit, or not at all.
ClockTick ==
  /\ \A c \in Call : call[c].step \in {"counter", "bucket", "judge"} => call[c].at = clock
  /\ clock < MaxClock /\ clock' = clock + 1
  /\ UNCHANGED <<limiter, counter, bucket, call, passed, blind, raced, outrun, redisFaults>>

Next ==
  \/ \E c \in Call : \/ Arrive(c) \/ Count(c) \/ CountFails(c)
                     \/ Read(c) \/ ReadFails(c) \/ Refuse(c) \/ AppendTime(c) \/ AppendFails(c)
  \/ ClockTick

-----------------------------------------------------------------------------
(* Properties.                                                              *)

TypeOK ==
  /\ clock \in 0 .. MaxClock /\ limiter \in {"counter", "bucket"}
  /\ \A m \in 0 .. Minute(MaxClock) : counter[m] \in [n : Nat, end : Nat]
  /\ bucket \in Seq(0 .. MaxClock)
  /\ \A c \in Call : call[c].step \in {"new", "counter", "bucket", "judge", "passed", "refused"}
  /\ passed \subseteq Call /\ blind \subseteq Call /\ outrun \subseteq Call
  /\ raced \subseteq Call \X Call

\* In a minute no more than twice Limit calls pass the counter, whose key can end once
\* within its minute, in whatever order Redis gets to them. Two calls within
\* LeakInterval of each other pass the bucket only when one had read it before the other
\* was appended, or when an older call was appended behind the first. Calls that met a
\* failure of Redis are left out.
LimitsHold ==
  /\ limiter = "counter" =>
       \A m \in 0 .. Minute(MaxClock) :
         Cardinality({c \in passed \ blind : Minute(call[c].at) = m}) <= 2 * Limit
  /\ limiter = "bucket" =>
       \A a, b \in passed \ blind :
         a # b /\ call[a].at - call[b].at \in 0 .. LeakInterval - 1 =>
           <<a, b>> \in raced \/ <<b, a>> \in raced \/ {a, b} \cap outrun # {}
=============================================================================
