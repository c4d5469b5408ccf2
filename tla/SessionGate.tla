----------------------------- MODULE SessionGate -----------------------------
(***************************************************************************)
(* The gate in front of /mcp (transport/http.rs): how many MCP sessions    *)
(* there may be at a time, and the log lines about those it turns away.    *)
(*                                                                         *)
(* An `initialize` request is let through if the live sessions and the     *)
(* admitted requests not yet finished are fewer than MaxSessions.  rmcp    *)
(* puts the session into its map while it handles the request and removes  *)
(* it when the client or a timeout ends it; the map's write lock is held   *)
(* for the length of an insertion or a removal, and the count cannot be    *)
(* read then.  A request may be dropped at any point where it awaits.      *)
(*                                                                         *)
(* A request's name is used again once its request is over, and a session  *)
(* lives on without it.                                                    *)
(***************************************************************************)
EXTENDS Naturals, FiniteSets

CONSTANTS Request,      \* requests at the gate at one time
          MaxSessions,  \* [transport.http].max_sessions; 0, no gate, is left out
          Attempts,     \* RESERVE_ATTEMPTS
          Every,        \* REFUSAL_LOG_EVERY_SECS
          MaxClock,     \* bound on the time that passes
          MaxRefused,   \* bound on the refusals
          Nobody,
          Never         \* nothing has been logged yet (u64::MAX)

ASSUME RequestAssumption == IsFiniteSet(Request) /\ Nobody \notin Request
ASSUME LimitAssumption == MaxSessions \in Nat \ {0} /\ Attempts \in Nat \ {0}
ASSUME LogAssumption == Every \in Nat \ {0} /\ MaxClock \in Nat /\ MaxRefused \in Nat
ASSUME NeverAssumption == Never \notin Nat

VARIABLES
    live,       \* how many sessions rmcp's map has
    ending,     \* a session is being taken out of the map
    inFlight,   \* Admissions.in_flight
    gateLock,   \* who holds the mutex around it
    pc,         \* where each request is
    tries,      \* how often it found the map's lock taken
    nowLive,    \* the count it read
    lastLogged, \* RefusalLog.last_logged_secs
    suppressed, \* RefusalLog.suppressed
    clock,      \* seconds since the log was created
    at,         \* the time a refused request was judged at
    seen,       \* lastLogged as it read it
    refused,    \* history: how many were refused
    told        \* history: how many refusals the lines account for

seatVars == <<live, ending, inFlight, gateLock, tries, nowLive>>
logVars == <<lastLogged, suppressed, at, seen, refused, told>>
vars == <<seatVars, logVars, clock, pc>>

PC == {"idle", "asking", "deciding",                    \* try_reserve
       "forwarded", "inserting", "inserted",            \* handled by rmcp
       "returning",                                     \* the seat's Drop
       "refused", "timed", "judging", "won", "lost"}    \* RefusalLog::record

Init ==
    /\ live = 0
    /\ ending = FALSE
    /\ inFlight = 0
    /\ gateLock = Nobody
    /\ pc = [r \in Request |-> "idle"]
    /\ tries = [r \in Request |-> 0]
    /\ nowLive = [r \in Request |-> 0]
    /\ lastLogged = Never
    /\ suppressed = 0
    /\ clock = 0
    /\ at = [r \in Request |-> 0]
    /\ seen = [r \in Request |-> Never]
    /\ refused = 0
    /\ told = 0

Moves(r, from, to) == pc[r] = from /\ pc' = [pc EXCEPT ![r] = to]

(***************************************************************************)
(* Admission                                                               *)
(***************************************************************************)

\* A POST without a session id whose body is an `initialize` request.
Arrive(r) ==
    /\ refused < MaxRefused
    /\ Moves(r, "idle", "asking")
    /\ UNCHANGED <<seatVars, logVars, clock>>

\* rmcp holds the map's write lock.
MapLocked == ending \/ \E r \in Request : pc[r] = "inserting"

\* Mutant: the mutex keeps nobody out.
GateFree_Unlocked == TRUE

\* The mutex around in_flight can be taken.
GateFree == gateLock = Nobody

\* Under the mutex the live sessions are counted, ...
ReadLive(r) ==
    /\ GateFree
    /\ ~MapLocked
    /\ Moves(r, "asking", "deciding")
    /\ gateLock' = r
    /\ nowLive' = [nowLive EXCEPT ![r] = live]
    /\ tries' = [tries EXCEPT ![r] = 0]
    /\ UNCHANGED <<live, ending, inFlight, logVars, clock>>

Refuse(r) ==
    /\ pc' = [pc EXCEPT ![r] = "refused"]
    /\ refused' = refused + 1

\* ... or cannot be, for now: the mutex is let go and the request yields, a
\* number of times.
MapBusy(r) ==
    /\ GateFree
    /\ MapLocked
    /\ pc[r] = "asking"
    /\ IF tries[r] + 1 = Attempts
       THEN Refuse(r) /\ tries' = [tries EXCEPT ![r] = 0]
       ELSE tries' = [tries EXCEPT ![r] = @ + 1] /\ UNCHANGED <<pc, refused>>
    /\ UNCHANGED <<live, ending, inFlight, gateLock, nowLive, lastLogged,
                   suppressed, at, seen, told, clock>>

\* Mutant: only the sessions there are count.
Full_LiveOnly(r) == nowLive[r] >= MaxSessions

\* The seats of admitted requests count as well.
Full(r) == nowLive[r] + inFlight >= MaxSessions

\* Still under the mutex, a seat is taken or the request refused.
Decide(r) ==
    /\ pc[r] = "deciding"
    /\ gateLock' = Nobody
    /\ IF Full(r)
       THEN Refuse(r) /\ UNCHANGED inFlight
       ELSE /\ inFlight' = inFlight + 1
            /\ pc' = [pc EXCEPT ![r] = "forwarded"]
            /\ UNCHANGED refused
    /\ nowLive' = [nowLive EXCEPT ![r] = 0]
    /\ UNCHANGED <<live, ending, tries, lastLogged, suppressed, at, seen, told, clock>>

\* Mutant: a seat goes back without the mutex.
SeatMayReturn_Unlocked == TRUE

\* A seat goes back under the mutex the seats are taken under.
SeatMayReturn == GateFree

\* Drop for AdmissionSeat, with saturating subtraction.
ReturnSeat(r) ==
    /\ SeatMayReturn
    /\ Moves(r, "returning", "idle")
    /\ inFlight' = IF inFlight = 0 THEN 0 ELSE inFlight - 1
    /\ UNCHANGED <<live, ending, gateLock, tries, nowLive, logVars, clock>>

(***************************************************************************)
(* rmcp                                                                    *)
(***************************************************************************)

\* The request's session goes into the map, under its write lock.
LockMap(r) ==
    /\ ~MapLocked
    /\ Moves(r, "forwarded", "inserting")
    /\ UNCHANGED <<seatVars, logVars, clock>>

Insert(r) ==
    /\ Moves(r, "inserting", "inserted")
    /\ live' = live + 1
    /\ UNCHANGED <<ending, inFlight, gateLock, tries, nowLive, logVars, clock>>

\* The request is answered, with its session made or without one.
Answer(r) ==
    /\ Moves(r, "forwarded", "returning") \/ Moves(r, "inserted", "returning")
    /\ UNCHANGED <<seatVars, logVars, clock>>

\* A session is ended by its client or by a timeout, under the write lock too.
StartEnd ==
    /\ ~MapLocked
    /\ live > 0
    /\ ending' = TRUE
    /\ UNCHANGED <<live, inFlight, gateLock, tries, nowLive, logVars, clock, pc>>

EndSession ==
    /\ ending
    /\ ending' = FALSE
    /\ live' = live - 1
    /\ UNCHANGED <<inFlight, gateLock, tries, nowLive, logVars, clock, pc>>

\* Mutant: a request that is dropped before its answer takes its seat along.
AfterDrop_SeatLost(r) == "idle"

\* What is left of a dropped request: the drop of its seat, if it has one.
AfterDrop(r) == IF pc[r] = "asking" THEN "idle" ELSE "returning"

\* The client goes away while the request awaits.
Cancel(r) ==
    /\ pc[r] \in {"forwarded", "inserted"} \/ (pc[r] = "asking" /\ tries[r] > 0)
    /\ pc' = [pc EXCEPT ![r] = AfterDrop(r)]
    /\ tries' = [tries EXCEPT ![r] = 0]
    /\ UNCHANGED <<live, ending, inFlight, gateLock, nowLive, logVars, clock>>

(***************************************************************************)
(* RefusalLog::record, without a lock                                      *)
(***************************************************************************)

ReadClock(r) ==
    /\ Moves(r, "refused", "timed")
    /\ at' = [at EXCEPT ![r] = clock]
    /\ UNCHANGED <<seatVars, lastLogged, suppressed, seen, refused, told, clock>>

LoadLast(r) ==
    /\ Moves(r, "timed", "judging")
    /\ seen' = [seen EXCEPT ![r] = lastLogged]
    /\ UNCHANGED <<seatVars, lastLogged, suppressed, at, refused, told, clock>>

\* The window since the last line it saw is over.
Due(r) == IF seen[r] = Never THEN TRUE ELSE at[r] >= seen[r] + Every

\* Mutant: the time is stored whatever it is by now.
StillSeen_Stored(r) == TRUE

\* What compare_exchange compares.
StillSeen(r) == lastLogged = seen[r]

\* One of those that find it due writes the line.
Judge(r) ==
    /\ pc[r] = "judging"
    /\ IF Due(r) /\ StillSeen(r)
       THEN Moves(r, "judging", "won") /\ lastLogged' = at[r]
       ELSE Moves(r, "judging", "lost") /\ UNCHANGED lastLogged
    /\ at' = [at EXCEPT ![r] = 0]
    /\ seen' = [seen EXCEPT ![r] = Never]
    /\ UNCHANGED <<seatVars, suppressed, refused, told, clock>>

\* Mutant: the count is read, not taken.
LeftAfterLine_Kept == suppressed

\* What swap leaves.
LeftAfterLine == 0

\* Its line also accounts for those nobody has told of yet.
Tell(r) ==
    /\ Moves(r, "won", "idle")
    /\ told' = told + 1 + suppressed
    /\ suppressed' = LeftAfterLine
    /\ UNCHANGED <<seatVars, lastLogged, at, seen, refused, clock>>

Suppress(r) ==
    /\ Moves(r, "lost", "idle")
    /\ suppressed' = suppressed + 1
    /\ UNCHANGED <<seatVars, lastLogged, at, seen, refused, told, clock>>

Tick ==
    /\ clock < MaxClock
    /\ clock' = clock + 1
    /\ UNCHANGED <<seatVars, logVars, pc>>

Admit(r) == Arrive(r) \/ ReadLive(r) \/ MapBusy(r) \/ Decide(r) \/ ReturnSeat(r)

Handle(r) == LockMap(r) \/ Insert(r) \/ Answer(r) \/ Cancel(r)

Log(r) == ReadClock(r) \/ LoadLast(r) \/ Judge(r) \/ Tell(r) \/ Suppress(r)

Next == (\E r \in Request : Admit(r) \/ Handle(r) \/ Log(r)) \/ StartEnd \/ EndSession \/ Tick

Spec == Init /\ [][Next]_vars

(***************************************************************************)
(* Properties                                                              *)
(***************************************************************************)

\* The types of the variables; who is between the two reads of try_reserve
\* holds the mutex.
TypeOK ==
    /\ live \in Nat
    /\ ending \in BOOLEAN
    /\ inFlight \in Nat
    /\ gateLock \in Request \cup {Nobody}
    /\ pc \in [Request -> PC]
    /\ tries \in [Request -> Nat]
    /\ nowLive \in [Request -> Nat]
    /\ lastLogged \in Nat \cup {Never}
    /\ suppressed \in Nat
    /\ clock \in Nat
    /\ at \in [Request -> Nat]
    /\ seen \in [Request -> Nat \cup {Never}]
    /\ refused \in Nat
    /\ told \in Nat
    /\ \A r \in Request : pc[r] = "deciding" <=> gateLock = r

\* Admitted requests that still hold their seat, and of those the ones whose
\* session is not in the map.
Seated == {r \in Request : pc[r] \in {"forwarded", "inserting", "inserted", "returning"}}
Coming == {r \in Request : pc[r] \in {"forwarded", "inserting"}}

\* There are never more sessions than max_sessions, however requests, session
\* ends and dropped connections interleave with the two reads of try_reserve;
\* nor would there be if every admitted request made its session now.
SessionLimit == live + Cardinality(Coming) <= MaxSessions

\* No seat is lost or given back twice, whether a request is answered or
\* dropped: a lost one would shrink the limit for good.
SeatsCounted == inFlight = Cardinality(Seated)

\* Refused requests that are not accounted for yet.
Logging == {r \in Request : pc[r] \in {"refused", "timed", "judging", "won", "lost"}}

\* Every refusal is told of by a line or waits to be counted by the next, and
\* none twice, with any number of requests at the log at once.
RefusalsAccounted == refused = told + suppressed + Cardinality(Logging)

\* Two lines are a window apart, also when several requests find one due.
LinesApart ==
    [][lastLogged' # lastLogged /\ lastLogged # Never => lastLogged' >= lastLogged + Every]_vars
==============================================================================
