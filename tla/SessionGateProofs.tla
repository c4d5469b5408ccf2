-------------------------- MODULE SessionGateProofs --------------------------
(***************************************************************************)
(* For any number of requests at the gate and any max_sessions: there are  *)
(* never more sessions than that, no seat is lost, and every refusal is    *)
(* accounted for.                                                          *)
(***************************************************************************)
EXTENDS SessionGate, FiniteSetTheorems, TLAPS

\* A session that is being ended is still in the map.
EndingLive == ending => live > 0

\* Between the two reads of try_reserve the sessions that are there or on their
\* way may become fewer, never more than what the reads add up to: a seat stays
\* where it is while the mutex is held.
ReadCovers ==
    \A r \in Request :
        pc[r] = "deciding" => live + Cardinality(Coming) <= nowLive[r] + inFlight

\* The inductive invariant.  SessionLimit alone is not one: a request that has
\* read an old count could still be let in.
IInv == TypeOK /\ EndingLive /\ SeatsCounted /\ ReadCovers /\ SessionLimit

ComingPC == {"forwarded", "inserting"}
SeatedPC == {"forwarded", "inserting", "inserted", "returning"}
LoggingPC == {"refused", "timed", "judging", "won", "lost"}

(***************************************************************************)
(* Counting requests                                                       *)
(***************************************************************************)

\* The requests at one of some places, of which one request moves.
At(places) == {r \in Request : pc[r] \in places}

LEMMA Counts ==
    ASSUME NEW places
    PROVE  IsFiniteSet(At(places)) /\ Cardinality(At(places)) \in Nat
<1>1. At(places) \in SUBSET Request
  BY DEF At
<1> QED
  BY <1>1, RequestAssumption, FS_Subset, FS_CardinalityType

LEMMA CountAfterMove ==
    ASSUME TypeOK, NEW r \in Request, NEW to, NEW places,
           pc' = [pc EXCEPT ![r] = to]
    PROVE  Cardinality(At(places)') =
             Cardinality(At(places))
               + (IF to \in places THEN 1 ELSE 0)
               - (IF pc[r] \in places THEN 1 ELSE 0)
<1> USE DEF At
<1>1. At(places)' = IF to \in places THEN At(places) \cup {r} ELSE At(places) \ {r}
  BY DEF TypeOK
<1>2. r \in At(places) <=> pc[r] \in places
  OBVIOUS
<1>3. /\ Cardinality(At(places)) \in Nat
      /\ Cardinality(At(places) \cup {r}) =
           IF r \in At(places) THEN Cardinality(At(places)) ELSE Cardinality(At(places)) + 1
      /\ Cardinality(At(places) \ {r}) =
           IF r \in At(places) THEN Cardinality(At(places)) - 1 ELSE Cardinality(At(places))
  BY Counts, FS_AddElement, FS_RemoveElement
<1> HIDE DEF At
<1>4. CASE to \in places
  BY <1>1, <1>2, <1>3, <1>4
<1>5. CASE to \notin places
  BY <1>1, <1>2, <1>3, <1>5
<1> QED
  BY <1>4, <1>5

LEMMA Names == Coming = At(ComingPC) /\ Seated = At(SeatedPC) /\ Logging = At(LoggingPC)
BY DEF Coming, Seated, Logging, At, ComingPC, SeatedPC, LoggingPC

LEMMA NamesAfter ==
    Coming' = At(ComingPC)' /\ Seated' = At(SeatedPC)' /\ Logging' = At(LoggingPC)'
BY DEF Coming, Seated, Logging, At, ComingPC, SeatedPC, LoggingPC

\* Who will make a session has a seat.
LEMMA ComingSeated == Cardinality(Coming) <= Cardinality(Seated)
<1>1. Coming \in SUBSET Seated
  BY DEF Coming, Seated
<1> QED
  BY <1>1, Names, Counts, FS_Subset

\* What a request's move does to the two counts, by where it goes.
LEMMA SeatMoves ==
    ASSUME TypeOK, NEW r \in Request, NEW from, NEW to, Moves(r, from, to)
    PROVE  /\ Cardinality(Coming') = Cardinality(Coming)
                + (IF to \in ComingPC THEN 1 ELSE 0) - (IF from \in ComingPC THEN 1 ELSE 0)
           /\ Cardinality(Seated') = Cardinality(Seated)
                + (IF to \in SeatedPC THEN 1 ELSE 0) - (IF from \in SeatedPC THEN 1 ELSE 0)
           /\ Cardinality(Logging') = Cardinality(Logging)
                + (IF to \in LoggingPC THEN 1 ELSE 0) - (IF from \in LoggingPC THEN 1 ELSE 0)
           /\ Cardinality(Coming) \in Nat
           /\ Cardinality(Seated) \in Nat
           /\ Cardinality(Logging) \in Nat
BY CountAfterMove, Counts, Names, NamesAfter DEF Moves

LEMMA NoMove ==
    ASSUME UNCHANGED pc
    PROVE  Coming' = Coming /\ Seated' = Seated /\ Logging' = Logging
BY DEF Coming, Seated, Logging

(***************************************************************************)
(* Types                                                                   *)
(***************************************************************************)

LEMMA InitInv == Init => IInv
<1> SUFFICES ASSUME Init PROVE IInv
  OBVIOUS
<1>1. TypeOK
  BY RequestAssumption DEF Init, TypeOK, PC
<1>2. Coming = {} /\ Seated = {}
  BY DEF Init, Coming, Seated
<1>3. Cardinality({}) = 0
  BY FS_EmptySet
<1> QED
  BY <1>1, <1>2, <1>3, LimitAssumption
     DEF Init, IInv, EndingLive, SeatsCounted, ReadCovers, SessionLimit

LEMMA RequestTypes ==
    ASSUME TypeOK, EndingLive, NEW r \in Request, Admit(r) \/ Handle(r) \/ Log(r)
    PROVE  TypeOK' /\ EndingLive'
<1> USE RequestAssumption DEF TypeOK, EndingLive
<1>1. CASE Arrive(r)
  BY <1>1 DEF Arrive, Moves, seatVars, logVars, PC
<1>2. CASE ReadLive(r)
  BY <1>2 DEF ReadLive, Moves, GateFree, logVars, PC
<1>3. CASE MapBusy(r)
  BY <1>3 DEF MapBusy, Refuse, GateFree, PC
<1>4. CASE Decide(r)
  BY <1>4 DEF Decide, Refuse, PC
<1>5. CASE ReturnSeat(r)
  BY <1>5 DEF ReturnSeat, Moves, SeatMayReturn, GateFree, logVars, PC
<1>6. CASE LockMap(r)
  BY <1>6 DEF LockMap, Moves, seatVars, logVars, PC
<1>7. CASE Insert(r)
  BY <1>7 DEF Insert, Moves, logVars, PC
<1>8. CASE Answer(r)
  BY <1>8 DEF Answer, Moves, seatVars, logVars, PC
<1>9. CASE Cancel(r)
  BY <1>9 DEF Cancel, AfterDrop, logVars, PC
<1>10. CASE ReadClock(r)
  BY <1>10 DEF ReadClock, Moves, seatVars, PC
<1>11. CASE LoadLast(r)
  BY <1>11 DEF LoadLast, Moves, seatVars, PC
<1>12. CASE Judge(r)
  BY <1>12 DEF Judge, Moves, seatVars, PC
<1>13. CASE Tell(r)
  BY <1>13 DEF Tell, Moves, LeftAfterLine, seatVars, PC
<1>14. CASE Suppress(r)
  BY <1>14 DEF Suppress, Moves, seatVars, PC
<1> QED
  BY <1>1, <1>2, <1>3, <1>4, <1>5, <1>6, <1>7, <1>8, <1>9, <1>10, <1>11, <1>12, <1>13, <1>14
     DEF Admit, Handle, Log

LEMMA NextTypes ==
    ASSUME TypeOK, EndingLive, [Next]_vars
    PROVE  TypeOK' /\ EndingLive'
<1>1. ASSUME NEW r \in Request, Admit(r) \/ Handle(r) \/ Log(r)
      PROVE  TypeOK' /\ EndingLive'
  BY <1>1, RequestTypes
<1>2. CASE StartEnd
  BY <1>2 DEF StartEnd, TypeOK, EndingLive, logVars
<1>3. CASE EndSession
  <2>1. live' \in Nat /\ ending' = FALSE
    BY <1>3 DEF EndSession, TypeOK, EndingLive
  <2> QED
    BY <1>3, <2>1 DEF EndSession, TypeOK, EndingLive, logVars
<1>4. CASE Tick
  BY <1>4 DEF Tick, TypeOK, EndingLive, seatVars, logVars
<1>5. CASE UNCHANGED vars
  BY <1>5 DEF vars, seatVars, logVars, TypeOK, EndingLive
<1> QED
  BY <1>1, <1>2, <1>3, <1>4, <1>5 DEF Next

(***************************************************************************)
(* Seats                                                                   *)
(***************************************************************************)

\* Who gives a seat back has one.
LEMMA ReturningSeated ==
    ASSUME SeatsCounted, NEW r \in Request, ReturnSeat(r)
    PROVE  inFlight > 0
<1>1. Seated # {}
  BY DEF ReturnSeat, Moves, Seated
<1>2. IsFiniteSet(Seated) /\ Cardinality(Seated) \in Nat
  BY Counts, Names
<1> QED
  BY <1>1, <1>2, FS_EmptySet DEF SeatsCounted

LEMMA RequestSeats ==
    ASSUME TypeOK, SeatsCounted, NEW r \in Request, Admit(r) \/ Handle(r) \/ Log(r)
    PROVE  SeatsCounted'
<1> USE SeatMoves DEF SeatsCounted, ComingPC, SeatedPC
<1>1. CASE Arrive(r)
  BY <1>1 DEF Arrive, seatVars
<1>2. CASE ReadLive(r)
  BY <1>2 DEF ReadLive
<1>3. CASE MapBusy(r)
  <2>1. UNCHANGED pc \/ Moves(r, "asking", "refused")
    BY <1>3 DEF MapBusy, Refuse, Moves
  <2> QED
    BY <1>3, <2>1, NoMove DEF MapBusy
<1>4. CASE Decide(r)
  <2>1. \/ Moves(r, "deciding", "refused") /\ UNCHANGED inFlight
        \/ Moves(r, "deciding", "forwarded") /\ inFlight' = inFlight + 1
    BY <1>4 DEF Decide, Refuse, Moves
  <2> QED
    BY <2>1
<1>5. CASE ReturnSeat(r)
  <2>1. inFlight > 0
    BY <1>5, ReturningSeated
  <2> QED
    BY <1>5, <2>1 DEF ReturnSeat
<1>6. CASE LockMap(r)
  BY <1>6 DEF LockMap, seatVars
<1>7. CASE Insert(r)
  BY <1>7 DEF Insert
<1>8. CASE Answer(r)
  BY <1>8 DEF Answer, seatVars
<1>9. CASE Cancel(r)
  <2>1. \/ Moves(r, "asking", "idle")
        \/ Moves(r, "forwarded", "returning")
        \/ Moves(r, "inserted", "returning")
    BY <1>9 DEF Cancel, AfterDrop, Moves
  <2> QED
    BY <1>9, <2>1 DEF Cancel
<1>10. CASE Log(r)
  <2>1. /\ \E from \in LoggingPC, to \in LoggingPC \cup {"idle"} : Moves(r, from, to)
        /\ UNCHANGED inFlight
    BY <1>10 DEF Log, ReadClock, LoadLast, Judge, Tell, Suppress, seatVars, LoggingPC
  <2> QED
    BY <2>1 DEF LoggingPC
<1> QED
  BY <1>1, <1>2, <1>3, <1>4, <1>5, <1>6, <1>7, <1>8, <1>9, <1>10 DEF Admit, Handle

(***************************************************************************)
(* The limit                                                               *)
(***************************************************************************)

\* A step that adds no session and no promise of one, and takes or returns no
\* seat, leaves what was read true.
LEMMA NoMoreComing ==
    ASSUME IInv, TypeOK',
           live' + Cardinality(Coming') <= live + Cardinality(Coming),
           Cardinality(Coming') \in Nat,
           UNCHANGED <<inFlight, nowLive>>,
           \A q \in Request : pc'[q] = "deciding" => pc[q] = "deciding"
    PROVE  ReadCovers' /\ SessionLimit'
<1>1. Cardinality(Coming) \in Nat
  BY Counts, Names
<1>2. SessionLimit'
  BY <1>1, LimitAssumption DEF IInv, TypeOK, SessionLimit
<1>3. ReadCovers'
  BY <1>1 DEF IInv, TypeOK, ReadCovers
<1> QED
  BY <1>2, <1>3

\* While nobody is between the two reads, nothing has been read.
LEMMA NobodyReads == ASSUME TypeOK, gateLock = Nobody PROVE ReadCovers
BY RequestAssumption DEF TypeOK, ReadCovers

LEMMA ReadLiveKeepsLimit ==
    ASSUME IInv, TypeOK', NEW r \in Request, ReadLive(r)
    PROVE  ReadCovers' /\ SessionLimit'
<1>1. /\ Cardinality(Coming') = Cardinality(Coming)
      /\ Cardinality(Coming) \in Nat
  BY SeatMoves DEF ReadLive, IInv, ComingPC
<1>2. gateLock' = r /\ live' = live /\ inFlight' = inFlight /\ nowLive'[r] = live
  BY DEF ReadLive, IInv, TypeOK
<1>3. Cardinality(Coming) <= inFlight
  BY ComingSeated DEF IInv, SeatsCounted
<1>4. \A q \in Request : pc'[q] = "deciding" => q = r
  BY <1>2 DEF TypeOK
<1>5. ReadCovers'
  BY <1>1, <1>2, <1>3, <1>4 DEF ReadCovers, IInv, TypeOK
<1>6. SessionLimit'
  BY <1>1, <1>2 DEF SessionLimit, IInv
<1> QED
  BY <1>5, <1>6

\* The case the mutex is for: what was read is still enough when the seat is taken.
LEMMA DecideKeepsLimit ==
    ASSUME IInv, TypeOK', NEW r \in Request, Decide(r)
    PROVE  ReadCovers' /\ SessionLimit'
<1>1. ReadCovers'
  BY RequestAssumption DEF Decide, TypeOK, ReadCovers
<1>2. live' = live
  BY DEF Decide
<1>3. CASE Full(r)
  <2>1. Moves(r, "deciding", "refused")
    BY <1>3 DEF Decide, Refuse, Moves
  <2>2. Cardinality(Coming') = Cardinality(Coming)
    BY <2>1, SeatMoves DEF IInv, ComingPC
  <2> QED
    BY <1>1, <1>2, <2>2 DEF SessionLimit, IInv
<1>4. CASE ~Full(r)
  <2>1. Moves(r, "deciding", "forwarded")
    BY <1>4 DEF Decide, Moves
  <2>2. /\ Cardinality(Coming') = Cardinality(Coming) + 1
        /\ Cardinality(Coming) \in Nat
    BY <2>1, SeatMoves DEF IInv, ComingPC
  <2>3. live + Cardinality(Coming) <= nowLive[r] + inFlight
    BY DEF Decide, IInv, ReadCovers
  <2>4. nowLive[r] + inFlight < MaxSessions
    BY <1>4, LimitAssumption DEF Full, IInv, TypeOK
  <2>5. nowLive[r] \in Nat /\ inFlight \in Nat /\ live \in Nat
    BY DEF IInv, TypeOK
  <2>6. live' + Cardinality(Coming') <= MaxSessions
    BY <1>2, <2>2, <2>3, <2>4, <2>5, LimitAssumption
  <2> QED
    BY <1>1, <2>6 DEF SessionLimit
<1> QED
  BY <1>3, <1>4

LEMMA RequestLimit ==
    ASSUME IInv, TypeOK', NEW r \in Request, Admit(r) \/ Handle(r) \/ Log(r)
    PROVE  ReadCovers' /\ SessionLimit'
<1>0. /\ TypeOK
      /\ live \in Nat
      /\ Cardinality(Coming) \in Nat
      /\ Cardinality(Coming') \in Nat
  <2>1. At(ComingPC)' \in SUBSET Request
    BY DEF At
  <2>2. Cardinality(At(ComingPC)') \in Nat
    BY <2>1, RequestAssumption, FS_Subset, FS_CardinalityType
  <2> QED
    BY <2>2, Counts, Names, NamesAfter DEF IInv, TypeOK
<1> USE SeatMoves DEF ComingPC
<1>1. CASE ReadLive(r)
  BY <1>1, ReadLiveKeepsLimit
<1>2. CASE Decide(r)
  BY <1>2, DecideKeepsLimit
<1>3. CASE ReturnSeat(r)
  <2>1. Cardinality(Coming') = Cardinality(Coming)
    BY <1>0, <1>3 DEF ReturnSeat
  <2>2. gateLock' = Nobody /\ live' = live
    BY <1>3 DEF ReturnSeat, SeatMayReturn, GateFree
  <2>3. ReadCovers'
    BY <2>2, RequestAssumption DEF TypeOK, ReadCovers
  <2> QED
    BY <2>1, <2>2, <2>3 DEF IInv, SessionLimit
<1>4. CASE Arrive(r) \/ MapBusy(r) \/ Handle(r) \/ Log(r)
  <2>1. UNCHANGED <<inFlight, nowLive>>
    BY <1>4 DEF Arrive, MapBusy, Handle, Log, LockMap, Insert, Answer, Cancel,
                ReadClock, LoadLast, Judge, Tell, Suppress, seatVars
  <2>2. \A q \in Request : pc'[q] = "deciding" => pc[q] = "deciding"
    BY <1>0, <1>4 DEF Arrive, MapBusy, Refuse, Handle, Log, LockMap, Insert, Answer, Cancel,
                AfterDrop, ReadClock, LoadLast, Judge, Tell, Suppress, Moves, TypeOK
  <2>3. CASE Insert(r)
    <3>1. Cardinality(Coming') = Cardinality(Coming) - 1 /\ live' = live + 1
      BY <1>0, <2>3 DEF Insert
    <3> QED
      BY <1>0, <2>1, <2>2, <3>1, NoMoreComing
  <2>4. CASE ~Insert(r)
    <3>1. live' = live
      BY <1>4, <2>4 DEF Arrive, MapBusy, Handle, Log, LockMap, Answer, Cancel,
                  ReadClock, LoadLast, Judge, Tell, Suppress, seatVars
    <3>2. UNCHANGED pc \/ \E from, to : /\ Moves(r, from, to)
                                        /\ to \in ComingPC => from \in ComingPC
      BY <1>4, <2>4 DEF Arrive, MapBusy, Refuse, Handle, Log, LockMap, Answer, Cancel,
                  AfterDrop, ReadClock, LoadLast, Judge, Tell, Suppress, Moves
    <3>3. Cardinality(Coming') <= Cardinality(Coming)
      BY <1>0, <3>2, NoMove
    <3> QED
      BY <1>0, <2>1, <2>2, <3>1, <3>3, NoMoreComing
  <2> QED
    BY <2>3, <2>4
<1> QED
  BY <1>1, <1>2, <1>3, <1>4 DEF Admit

LEMMA NextInv ==
    ASSUME IInv, [Next]_vars
    PROVE  IInv'
<1>1. TypeOK' /\ EndingLive'
  BY NextTypes DEF IInv
<1>2. Cardinality(Coming) \in Nat /\ live \in Nat
  BY Counts, Names DEF IInv, TypeOK
<1>3. ASSUME NEW r \in Request, Admit(r) \/ Handle(r) \/ Log(r)
      PROVE  SeatsCounted' /\ ReadCovers' /\ SessionLimit'
  BY <1>1, <1>3, RequestSeats, RequestLimit DEF IInv
<1>4. CASE StartEnd \/ EndSession \/ Tick \/ UNCHANGED vars
  <2>1. UNCHANGED <<pc, inFlight, nowLive>> /\ live' <= live
    BY <1>2, <1>4 DEF StartEnd, EndSession, Tick, vars, seatVars
  <2>2. Coming' = Coming /\ Seated' = Seated
    BY <2>1, NoMove
  <2>3. live' + Cardinality(Coming') <= live + Cardinality(Coming)
    BY <1>1, <1>2, <2>1, <2>2 DEF TypeOK
  <2> QED
    BY <1>1, <1>2, <2>1, <2>2, <2>3, NoMoreComing DEF IInv, SeatsCounted
<1> QED
  BY <1>1, <1>3, <1>4 DEF Next, IInv

THEOREM InvHolds == Spec => []IInv
<1>1. Init => IInv
  BY InitInv
<1>2. IInv /\ [Next]_vars => IInv'
  BY NextInv
<1> QED
  BY <1>1, <1>2, PTL DEF Spec

\* The type invariant of the gate, for any number of requests and any limit: in
\* particular the mutex around in_flight has one holder between the two reads.
THEOREM TypeCorrect == Spec => []TypeOK
<1>1. IInv => TypeOK
  BY DEF IInv
<1> QED
  BY <1>1, InvHolds, PTL

\* try_reserve never admits a session too many, for any max_sessions and any
\* number of requests that arrive, are answered or are dropped at once.
THEOREM SessionLimitTheorem == Spec => []SessionLimit
<1>1. IInv => SessionLimit
  BY DEF IInv
<1> QED
  BY <1>1, InvHolds, PTL

\* in_flight is at all times the number of requests that hold a seat, so the
\* saturating subtraction of AdmissionSeat's drop never meets zero.
THEOREM SeatsCountedTheorem == Spec => []SeatsCounted
<1>1. IInv => SeatsCounted
  BY DEF IInv
<1> QED
  BY <1>1, InvHolds, PTL

(***************************************************************************)
(* The refusal log                                                         *)
(***************************************************************************)

LEMMA RequestAccounts ==
    ASSUME TypeOK, RefusalsAccounted, NEW r \in Request, Admit(r) \/ Handle(r) \/ Log(r)
    PROVE  RefusalsAccounted'
<1>1. refused \in Nat /\ told \in Nat /\ suppressed \in Nat /\ Cardinality(Logging) \in Nat
  BY Counts, Names DEF TypeOK
<1> USE DEF LoggingPC
<1>2. CASE \E from : Moves(r, from, "refused") /\ from \notin LoggingPC
                     /\ refused' = refused + 1 /\ UNCHANGED <<told, suppressed>>
  BY <1>1, <1>2, SeatMoves DEF RefusalsAccounted
<1>3. CASE Tell(r)
  <2>1. Cardinality(Logging') = Cardinality(Logging) - 1
    BY <1>1, <1>3, SeatMoves DEF Tell
  <2> QED
    BY <1>1, <1>3, <2>1 DEF Tell, LeftAfterLine, RefusalsAccounted
<1>4. CASE Suppress(r)
  <2>1. Cardinality(Logging') = Cardinality(Logging) - 1
    BY <1>1, <1>4, SeatMoves DEF Suppress
  <2> QED
    BY <1>1, <1>4, <2>1 DEF Suppress, RefusalsAccounted
<1>5. CASE /\ UNCHANGED <<refused, told, suppressed>>
           /\ \/ UNCHANGED pc
              \/ \E from, to : Moves(r, from, to) /\ (from \in LoggingPC <=> to \in LoggingPC)
  <2>1. Cardinality(Logging') = Cardinality(Logging)
    BY <1>1, <1>5, NoMove, SeatMoves
  <2> QED
    BY <1>5, <2>1 DEF RefusalsAccounted
<1>6. CASE Admit(r)
  BY <1>2, <1>5, <1>6 DEF Admit, Arrive, ReadLive, MapBusy, Decide, ReturnSeat, Refuse, Moves,
                          logVars
<1>7. CASE Handle(r)
  BY <1>5, <1>7 DEF Handle, LockMap, Insert, Answer, Cancel, AfterDrop, Moves, logVars
<1>8. CASE ReadClock(r) \/ LoadLast(r) \/ Judge(r)
  BY <1>5, <1>8 DEF ReadClock, LoadLast, Judge, Moves
<1> QED
  BY <1>3, <1>6, <1>7, <1>8, <1>4 DEF Log

\* RefusalLog::record loses no refusal and counts none twice, however its loads,
\* exchanges and swaps interleave.
THEOREM RefusalsAccountedTheorem == Spec => []RefusalsAccounted
<1>1. Init => RefusalsAccounted
  <2>1. Init => Logging = {}
    BY DEF Init, Logging
  <2> QED
    BY <2>1, FS_EmptySet DEF Init, RefusalsAccounted
<1>2. TypeOK /\ RefusalsAccounted /\ [Next]_vars => RefusalsAccounted'
  <2> SUFFICES ASSUME TypeOK, RefusalsAccounted, [Next]_vars PROVE RefusalsAccounted'
    OBVIOUS
  <2>1. CASE StartEnd \/ EndSession \/ Tick \/ UNCHANGED vars
    <3>1. UNCHANGED <<pc, refused, told, suppressed>>
      BY <2>1 DEF StartEnd, EndSession, Tick, vars, logVars
    <3> QED
      BY <3>1, NoMove DEF RefusalsAccounted
  <2> QED
    BY <2>1, RequestAccounts DEF Next
<1> QED
  BY <1>1, <1>2, TypeCorrect, PTL DEF Spec

\* Two lines of the log are REFUSAL_LOG_EVERY_SECS apart, whatever the window and
\* however many requests find one due: compare_exchange lets one through.
THEOREM LinesApartTheorem == Spec => LinesApart
<1>1. TypeOK /\ [Next]_vars =>
        [lastLogged' # lastLogged /\ lastLogged # Never => lastLogged' >= lastLogged + Every]_vars
  <2> SUFFICES ASSUME TypeOK, Next, lastLogged' # lastLogged, lastLogged # Never
               PROVE  lastLogged' >= lastLogged + Every
    OBVIOUS
  <2>1. PICK r \in Request : Judge(r)
    BY DEF Next, Admit, Handle, Log, Arrive, ReadLive, MapBusy, Decide, ReturnSeat, LockMap,
           Insert, Answer, Cancel, ReadClock, LoadLast, Tell, Suppress, StartEnd, EndSession,
           Tick, logVars
  <2>2. Due(r) /\ StillSeen(r) /\ lastLogged' = at[r]
    BY <2>1 DEF Judge
  <2> QED
    BY <2>2 DEF Due, StillSeen
<1> QED
  BY <1>1, TypeCorrect, PTL DEF Spec, LinesApart
==============================================================================
