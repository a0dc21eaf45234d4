---------------------------- MODULE OutgoingCalls ----------------------------
(***************************************************************************)
(* The API step of several turns of one version that call one host: each   *)
(* counts its call in redis, waits a little if many were made, makes the   *)
(* call and stores what the step maps of the answer.  The count is read,   *)
(* its time to live asked and the next count written in three commands,    *)
(* each awaited, while the key may expire and other turns do the same.     *)
(***************************************************************************)
EXTENDS Integers, Sequences, FiniteSets

CONSTANTS
  Calls,     \* one API step of one turn each; the bound on calls made
  LIMIT,     \* MIN_NUMBER_OF_CALLS_TO_THROTTLE
  WINDOW,    \* EXPIRY_LENGTH, in ticks of redis' clock
  Names,     \* variables the step maps
  Path,      \* the keys each of them is read by, in order
  Bodies,    \* JSON bodies a host answers with
  AsNumber,  \* stringToNumIfNumeric: what each leaf of a body is stored as
  UNDEF, THROWS, OLD, NONE

\* A body is null, a leaf or an object: a function from keys to bodies.
Null == [kind |-> "null"]
Leaf(v) == [kind |-> "leaf", value |-> v]
Object(fields) == [kind |-> "object", fields |-> fields]
Empty == Object([k \in {} |-> Null])

ASSUME OutgoingAssumption ==
  /\ IsFiniteSet(Calls) /\ LIMIT \in Nat \ {0} /\ WINDOW \in Nat \ {0}
  /\ Cardinality({UNDEF, THROWS, OLD, NONE}) = 4

VARIABLES
  proxy,    \* FUNCTION_API_PROXY: calls are made by the lambda
  uses,     \* the counter in redis, 0 when there is no key
  left,     \* ticks until the key expires
  stage,       \* of each call
  read,     \* the count it read
  ttl,      \* the time to live it read
  answer,   \* the body of its answer, NULL before
  store,    \* the mapped variables of its turn
  port,     \* success or fail once it is done
  counted,  \* history: counts written
  window,   \* history: those since the key last expired
  exact     \* history: since then each call counted alone, heard by redis

redis == <<uses, left>>
history == <<counted, window, exact>>
step == <<answer, store, port>>
callsVars == <<proxy, redis, stage, read, ttl, step, history>>

Counting == {"ttl", "first", "set"}
Phases == Counting \cup {"idle", "get", "delayed", "request", "fetch", "done"}

Enter(c, to) == stage' = [stage EXCEPT ![c] = to]

\* The end of counting: what was read is of no more use.
Leave(c, to) ==
  /\ Enter(c, to)
  /\ read' = [read EXCEPT ![c] = 0] /\ ttl' = [ttl EXCEPT ![c] = 0]

\* The handler's catch: the fail port, and nothing stored.
Fail(c) ==
  /\ Enter(c, "done")
  /\ port' = [port EXCEPT ![c] = "fail"]
  /\ UNCHANGED <<answer, store>>
-----------------------------------------------------------------------------
(* addHostnameUseAndShouldThrottle.                                        *)

\* A legal address, by its form and by what its name resolves to.
Validate(c) ==
  /\ stage[c] = "idle"
  /\ Enter(c, "get")
  /\ UNCHANGED <<proxy, redis, read, ttl, step, history>>

RejectAddress(c) ==
  /\ stage[c] = "idle"
  /\ Fail(c)
  /\ UNCHANGED <<proxy, redis, read, ttl, history>>

GetHostnameUses(c) ==
  /\ stage[c] = "get"
  /\ read' = [read EXCEPT ![c] = uses]
  /\ Enter(c, IF uses = 0 THEN "first" ELSE "ttl")
  /\ exact' = (exact /\ \A d \in Calls : stage[d] \notin Counting)
  /\ UNCHANGED <<proxy, redis, ttl, step, counted, window>>

\* Redis rounds what is left of a key to whole seconds; -2 is no key.
Remaining == IF uses = 0 THEN {-2} ELSE {left - 1, left}

GetTTL(c) ==
  /\ stage[c] = "ttl"
  /\ \E t \in Remaining : ttl' = [ttl EXCEPT ![c] = t]
  /\ Enter(c, "set")
  /\ UNCHANGED <<proxy, redis, read, step, history>>

\* Faulty variant: the call being made is counted by who reads next.
NextCountLate(c) == read[c]

\* Faulty variant: counted again for what redis rounds off.
NextCountTwice(c) == read[c] + 2

\* The count a call writes: one more than it read.
NextCount(c) == read[c] + 1

Counted(c, lives) ==
  /\ uses' = NextCount(c)
  /\ left' = lives
  /\ counted' = counted + 1
  /\ window' = window + 1

\* Faulty variant: the call that reaches the limit is delayed already.
AfterCountAtLimit(c, heard) ==
  /\ Leave(c, IF heard /\ NextCount(c) >= LIMIT THEN "delayed" ELSE "request")
  /\ exact' = (exact /\ heard)

\* The answer of redis may be lost after the count was written.
AfterCount(c, heard) ==
  /\ Leave(c, IF heard /\ NextCount(c) > LIMIT THEN "delayed" ELSE "request")
  /\ exact' = (exact /\ heard)

SetFirst(c, heard) ==
  /\ stage[c] = "first"
  /\ Counted(c, WINDOW)
  /\ AfterCount(c, heard)
  /\ UNCHANGED <<proxy, step>>

SetAgain(c, heard) ==
  /\ stage[c] = "set" /\ ttl[c] > 0
  /\ Counted(c, ttl[c])
  /\ AfterCount(c, heard)
  /\ UNCHANGED <<proxy, step>>

\* A command fails, or the time to live is none redis accepts: the error is
\* caught, and the call made without being counted or delayed.
CountFails(c) ==
  /\ stage[c] \in {"get"} \cup Counting
  /\ Leave(c, "request")
  /\ exact' = FALSE
  /\ UNCHANGED <<proxy, redis, step, counted, window>>

Delay(c) ==
  /\ stage[c] = "delayed"
  /\ Enter(c, "request")
  /\ UNCHANGED <<proxy, redis, read, ttl, step, history>>

\* The key's clock.  A key that expires while nobody counts starts afresh.
Tick ==
  /\ left > 0
  /\ left' = left - 1
  /\ IF left = 1
       THEN /\ uses' = 0 /\ window' = 0
            /\ exact' = (\A d \in Calls : stage[d] \notin Counting)
       ELSE UNCHANGED <<uses, window, exact>>
  /\ UNCHANGED <<proxy, stage, read, ttl, step, counted>>
-----------------------------------------------------------------------------
(* The call itself.                                                        *)

\* createRequest: the body's type is known and the certificate can be read.
CreateRequest(c) ==
  /\ stage[c] = "request"
  /\ Enter(c, "fetch")
  /\ UNCHANGED <<proxy, redis, read, ttl, step, history>>

RequestFails(c) ==
  /\ stage[c] = "request"
  /\ Fail(c)
  /\ UNCHANGED <<proxy, redis, read, ttl, history>>

\* stringToNumIfNumeric, of what is read last.
StringToNum(leaf) == Leaf(AsNumber[leaf.value])

\* getVariable: a missing key gives undefined, a key of null throws.
Extract(path, body) ==
  LET Walk[k \in 0..Len(path)] ==
        IF k = 0 THEN body
        ELSE LET at == Walk[k - 1]
             IN IF at \in {UNDEF, THROWS} THEN at
                ELSE CASE at.kind = "null" -> THROWS
                       [] at.kind = "leaf" -> UNDEF
                       [] at.kind = "object" ->
                            IF path[k] \in DOMAIN at.fields THEN at.fields[path[k]] ELSE UNDEF
      end == Walk[Len(path)]
  IN IF end \in {UNDEF, THROWS} \/ end.kind # "leaf" THEN end ELSE StringToNum(end)

\* Faulty variant: what cannot be read is as good as any value.
MapsAlways(body) == TRUE

Maps(body) == \A x \in Names : Extract(Path[x], body) # THROWS

\* transformResponseBody and variables.merge: what is defined is stored.
Merged(old, body) ==
  [x \in Names |-> IF Extract(Path[x], body) = UNDEF THEN old[x] ELSE Extract(Path[x], body)]

\* An answer is complete, or cut off after its header: a body that cannot be
\* read, for its form, its size or the time it takes, is an empty object.
Received == Bodies \cup {Empty}

ASSUME AnswerAssumption == NONE \notin Received

\* The host answers, with a status that is ok or not.
Answer(c, ok, body) ==
  /\ stage[c] = "fetch"
  /\ body \in (IF proxy THEN Bodies ELSE Received)
  /\ Maps(body)
  /\ answer' = [answer EXCEPT ![c] = body]
  /\ store' = [store EXCEPT ![c] = Merged(@, body)]
  /\ port' = [port EXCEPT ![c] = IF ok THEN "success" ELSE "fail"]
  /\ Enter(c, "done")
  /\ UNCHANGED <<proxy, redis, read, ttl, history>>

AnswerFails(c) ==
  /\ stage[c] = "fetch"
  /\ \E body \in Bodies : ~Maps(body)
  /\ Fail(c)
  /\ UNCHANGED <<proxy, redis, read, ttl, history>>

\* What the lambda makes of a proxied call: nothing, no JSON, an error, or the
\* response of the host.
Replies == {"none", "garbage", "error", "response"}
Usable(payload) == payload = "response"

LambdaFails(c) ==
  /\ stage[c] = "fetch" /\ proxy
  /\ \E payload \in Replies : ~Usable(payload)
  /\ Fail(c)
  /\ UNCHANGED <<proxy, redis, read, ttl, history>>

\* Faulty variant: no time limit is set.
AbortNever(c) ==
  /\ stage[c] = "fetch" /\ ~proxy /\ FALSE
  /\ Fail(c)
  /\ UNCHANGED <<proxy, redis, read, ttl, history>>

\* The connection fails, or requestTimeoutMs pass: only for a direct call.
Abort(c) ==
  /\ stage[c] = "fetch" /\ ~proxy
  /\ Fail(c)
  /\ UNCHANGED <<proxy, redis, read, ttl, history>>
-----------------------------------------------------------------------------
CallsInit ==
  /\ proxy \in BOOLEAN
  /\ uses = 0 /\ left = 0
  /\ stage = [c \in Calls |-> "idle"]
  /\ read = [c \in Calls |-> 0] /\ ttl = [c \in Calls |-> 0]
  /\ answer = [c \in Calls |-> NONE]
  /\ store = [c \in Calls |-> [x \in Names |-> OLD]]
  /\ port = [c \in Calls |-> NONE]
  /\ counted = 0 /\ window = 0 /\ exact = TRUE

\* What the runtime does next for a call that was validated, whether or not
\* redis or the host is there.
Proceed(c) ==
  \/ GetHostnameUses(c) \/ GetTTL(c) \/ CountFails(c)
  \/ \E heard \in BOOLEAN : SetFirst(c, heard) \/ SetAgain(c, heard)
  \/ Delay(c) \/ CreateRequest(c) \/ RequestFails(c)
  \/ Abort(c)

Hosted(c) ==
  \/ \E ok \in BOOLEAN, body \in Received : Answer(c, ok, body)
  \/ AnswerFails(c) \/ LambdaFails(c)

CallsNext ==
  \/ \E c \in Calls : Validate(c) \/ RejectAddress(c) \/ Proceed(c) \/ Hosted(c)
  \/ Tick

CallsSpec == CallsInit /\ [][CallsNext]_callsVars /\ \A c \in Calls : WF_callsVars(Proceed(c))
-----------------------------------------------------------------------------
(* Properties.                                                             *)

CallsTypeOK ==
  /\ proxy \in BOOLEAN /\ exact \in BOOLEAN
  /\ uses \in Nat /\ counted \in Nat /\ window \in Nat
  /\ left \in 0..WINDOW /\ (uses = 0 <=> left = 0)
  /\ stage \in [Calls -> Phases]
  /\ read \in [Calls -> Nat]
  /\ ttl \in [Calls -> {-2} \cup 0..WINDOW]

\* However the commands of several turns interleave, and though a count read
\* before the key expired may be written after, the counter never exceeds the
\* calls counted (OutgoingApiLimiter).
NeverOvercounts == uses <= counted

\* A call is only delayed if more than the limit were made ("if the use of the
\* hostname is high", makeAPICall).
DelayedOnlyWhenBusy == \A c \in Calls : stage[c] = "delayed" => counted > LIMIT

\* The counter is the number of calls since the key expired, unless some call
\* counted beside another, across the expiry, or unheard by redis.
ExactWhenAlone == exact => uses = window

\* A call stores all that its answer defines or nothing, and nothing unless
\* the answer came; an error status stores as a good one does (APIHandler).
AllOrNothing ==
  \A c \in Calls :
    /\ stage[c] # "done" \/ answer[c] = NONE => \A x \in Names : store[c][x] = OLD
    /\ stage[c] = "done" /\ answer[c] = NONE => port[c] = "fail"
    /\ answer[c] # NONE =>
         \A x \in Names : LET value == Extract(Path[x], answer[c])
                         IN /\ value # THROWS
                            /\ store[c][x] = IF value = UNDEF THEN OLD ELSE value

\* A call made directly ends, though redis or the host may never be heard of
\* (the limit of requestTimeoutMs); a proxied one may wait for the lambda.
DirectCallsEnd == \A c \in Calls : stage[c] = "get" /\ ~proxy ~> stage[c] = "done"
=============================================================================
