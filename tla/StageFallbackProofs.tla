------------------------- MODULE StageFallbackProofs -------------------------
(***************************************************************************)
(* Proofs about StageFallback, for every length of the route and, but for  *)
(* what is left behind, for every number of copies of a post.              *)
(***************************************************************************)
EXTENDS StageFallback, TLAPS

-----------------------------------------------------------------------------
(* Type correctness *)

Reasons == {"no", "unapproved", "rejected", "absent", "refused", "invalid"}
HandlerStates == {"none", "lost", "transit", "unreserved", "stream",
                  "rejected", "uncertain", "done", "refused"}

\* Going on to the next profile stays on the route.
LEMMA LeaveTyped ==
  ASSUME TypeOK, NEW why \in Reasons, Leave(why)
  PROVE  /\ pc' \in {"approve", "exhausted"} /\ at' \in Profiles
         /\ missing' \in BOOLEAN /\ left' \in [Profiles -> Reasons]
<1>1. at \in 1..N
  BY DEF TypeOK, Profiles
<1>2. at' \in 1..N
  BY <1>1, RouteAssumption DEF Leave
<1>3. QED
  BY <1>2 DEF Leave, TypeOK, Reasons, Profiles

\* A step of the browser keeps the types of what it owns.
LEMMA BrowserTyped ==
  ASSUME TypeOK, Browser
  PROVE  /\ pc' \in {"approve", "wait", "poll", "validate", "hung"} \cup Ends
         /\ at' \in Profiles /\ missing' \in BOOLEAN
         /\ left' \in [Profiles -> Reasons]
<1>1. ASSUME NEW what \in {"wait", "poll", "validate", "failed", "returned", "hung"},
             Become(what)
      PROVE  /\ pc' \in {"approve", "wait", "poll", "validate", "hung"} \cup Ends
             /\ at' \in Profiles /\ missing' \in BOOLEAN
             /\ left' \in [Profiles -> Reasons]
  BY <1>1 DEF Become, TypeOK, Ends, Reasons
<1>2. ASSUME NEW why \in Reasons, Leave(why)
      PROVE  /\ pc' \in {"approve", "wait", "poll", "validate", "hung"} \cup Ends
             /\ at' \in Profiles /\ missing' \in BOOLEAN
             /\ left' \in [Profiles -> Reasons]
  BY <1>2, LeaveTyped DEF Ends
<1>3. CASE Approve
  BY <1>1, <1>2, <1>3 DEF Approve, Reasons
<1>4. CASE Receive
  BY <1>1, <1>2, <1>4 DEF Receive, Reasons
<1>5. CASE StopWaiting \/ PollDeadline
  BY <1>1, <1>5 DEF StopWaiting, PollDeadline
<1>6. CASE Poll
  <2>1. CASE ~reserved[at] /\ missing' = TRUE /\ UNCHANGED <<pc, at, left>>
    BY <2>1 DEF TypeOK, Reasons
  <2>2. CASE Leave("absent") \/ Leave("refused")
    BY <1>2, <2>2 DEF Reasons
  <2>3. CASE Become("validate") \/ Become("failed")
    BY <1>1, <2>3
  <2>4. QED
    BY <1>6, <2>1, <2>2, <2>3 DEF Poll
<1>7. CASE Validate
  BY <1>1, <1>2, <1>7 DEF Validate, Reasons
<1>8. CASE Hang
  BY <1>1, <1>8 DEF Hang
<1>9. QED
  BY <1>3, <1>4, <1>5, <1>6, <1>7, <1>8 DEF Browser, GoOn

LEMMA GoesTyped ==
  ASSUME TypeOK, NEW i \in Profiles, NEW c \in Numbers,
         NEW what \in HandlerStates, Goes(i, c, what)
  PROVE  handler' \in [Profiles -> [Numbers -> HandlerStates]]
  BY DEF TypeOK, Goes, HandlerStates

\* The steps of the ledger keep its types.
LEMMA LedgerTyped ==
  ASSUME TypeOK, NEW i \in Profiles,
         \/ Ledger!Authorize(i) \/ Ledger!Send(i) \/ Ledger!Close(i) \/ Ledger!Doubt(i)
         \/ Ledger!Answer(i) \/ Ledger!Refuse(i) \/ Ledger!LoseResult(i)
  PROVE  /\ phase' \in [Profiles -> Ledger!Phases]
         /\ licensed' \in [Profiles -> BOOLEAN] /\ sends' \in [Profiles -> Nat]
<1>1. /\ phase \in [Profiles -> Ledger!Phases]
      /\ licensed \in [Profiles -> BOOLEAN] /\ sends \in [Profiles -> Nat]
  BY DEF TypeOK, Ledger!LedgerTypeOK
<1>2. CASE Ledger!Authorize(i)
  BY <1>1, <1>2 DEF Ledger!Authorize, Ledger!Move, Ledger!Phases
<1>3. CASE Ledger!Send(i)
  BY <1>1, <1>3 DEF Ledger!Send
<1>4. CASE Ledger!Close(i) \/ Ledger!Doubt(i)
  BY <1>1, <1>4 DEF Ledger!Close, Ledger!Doubt, Ledger!Move, Ledger!Phases
<1>5. CASE Ledger!Answer(i) \/ Ledger!Refuse(i) \/ Ledger!LoseResult(i)
  BY <1>1, <1>5 DEF Ledger!Answer, Ledger!Refuse, Ledger!LoseResult, Ledger!Move,
     Ledger!Phases
<1>6. QED
  BY <1>2, <1>3, <1>4, <1>5

LEMMA NextTyped == TypeOK /\ [Next]_vars => TypeOK'
<1> SUFFICES ASSUME TypeOK, [Next]_vars PROVE TypeOK'
  OBVIOUS
<1> USE DEF Ledger!LedgerTypeOK
<1>1. CASE Browser
  <2>1. UNCHANGED <<active, stage, reserved, outcome>>
    BY <1>1 DEF Browser, GoOn, Hang, Approve, Receive, StopWaiting, Poll, PollDeadline,
       Validate, rows
  <2>2. packet' \in [Profiles -> {"none", "approved", "claimed", "expired"}]
    BY <1>1 DEF Browser, GoOn, Hang, Approve, Receive, StopWaiting, Poll, PollDeadline,
       Validate, rows, TypeOK
  <2>3. handler' \in [Profiles -> [Numbers -> HandlerStates]]
    <3>1. 1 \in Numbers /\ at \in Profiles
      BY RouteAssumption DEF Numbers, TypeOK
    <3>2. UNCHANGED handler \/ handler' = [handler EXCEPT ![at][1] = "transit"]
      BY <1>1 DEF Browser, GoOn, Hang, Approve, Receive, StopWaiting, Poll, PollDeadline, Validate
    <3>3. UNCHANGED handler \/ Goes(at, 1, "transit")
      BY <3>2 DEF Goes
    <3>4. QED
      BY <3>1, <3>3, GoesTyped DEF TypeOK, HandlerStates
  <2>4. QED
    BY <1>1, <2>1, <2>2, <2>3, BrowserTyped DEF TypeOK, outcome, Reasons, HandlerStates
<1>2. ASSUME NEW i \in Profiles, NEW c \in Numbers, Network(i, c) \/ Gateway(i, c)
      PROVE  TypeOK'
  <2>1. handler' \in [Profiles -> [Numbers -> HandlerStates]]
    BY <1>2, GoesTyped DEF Network, Gateway, LookUp, Reserve, Stream, HandlerStates
  <2>2. /\ packet' \in [Profiles -> {"none", "approved", "claimed", "expired"}]
        /\ stage' \in [Profiles -> {"none", "active", "succeeded"}]
        /\ reserved' \in [Profiles -> BOOLEAN]
    BY <1>2 DEF Network, Gateway, LookUp, Reserve, Stream, rows, TypeOK
  <2>3. UNCHANGED <<browser, active, outcome>>
    BY <1>2 DEF Network, Gateway, LookUp, Reserve, Stream
  <2>4. QED
    BY <2>1, <2>2, <2>3 DEF TypeOK, browser, outcome, HandlerStates
<1>3. ASSUME NEW i \in Profiles, Dispatch(i) PROVE TypeOK'
  <2>1. /\ phase' \in [Profiles -> Ledger!Phases]
        /\ licensed' \in [Profiles -> BOOLEAN] /\ sends' \in [Profiles -> Nat]
    BY <1>3, LedgerTyped DEF Dispatch
  <2>2. /\ mayFallBack' \in [Profiles -> BOOLEAN] /\ result' \in [Profiles -> BOOLEAN]
        /\ stage' \in [Profiles -> {"none", "active", "succeeded"}]
    BY <1>3 DEF Dispatch, TypeOK
  <2>3. UNCHANGED <<browser, handler, active, packet, reserved>>
    BY <1>3 DEF Dispatch
  <2>4. QED
    BY <2>1, <2>2, <2>3 DEF TypeOK, browser
<1>4. ASSUME NEW i \in Profiles, Expire(i) PROVE TypeOK'
  BY <1>4 DEF Expire, TypeOK, browser
<1>5. CASE RunChanges
  BY <1>5 DEF RunChanges, TypeOK, browser, rows, outcome
<1>6. CASE UNCHANGED vars
  BY <1>6 DEF vars, TypeOK, browser, rows, outcome
<1>7. QED
  BY <1>1, <1>2, <1>3, <1>4, <1>5, <1>6 DEF Next

LEMMA InitTyped == Init => TypeOK
<1>1. 1 \in Profiles
  BY RouteAssumption DEF Profiles
<1>2. Init => Ledger!LedgerTypeOK
  BY DEF Init, Ledger!Init, Ledger!LedgerTypeOK, Ledger!Phases
<1>3. Init => handler \in [Profiles -> [Numbers -> HandlerStates]]
  BY DEF Init, HandlerStates
<1>4. QED
  BY <1>1, <1>2, <1>3 DEF Init, TypeOK, HandlerStates

\* Type correctness of the call, its posts, rows and attempts.
THEOREM TypeCorrect == Spec => []TypeOK
  BY InitTyped, NextTyped, PTL DEF Spec

-----------------------------------------------------------------------------
(* What is returned *)

\* The browser looks at one profile after the other.
NothingAhead ==
  \A i \in Profiles : left[i] # "no" => i < at \/ (i = at /\ pc = "exhausted")

\* An answer was asked for, and is accepted for its stage.
AnswersAccepted ==
  \A i \in Profiles : phase[i] = "answered" => sends[i] = 1 /\ stage[i] = "succeeded"

\* What a handler has told its connection is so.
HandlersTell ==
  \A i \in Profiles, c \in Numbers :
    /\ handler[i][c] = "done" => phase[i] = "answered"
    /\ handler[i][c] = "refused" => Refusable(i)

ReadIsAnswered == pc \in {"validate", "returned"} => phase[at] = "answered"

\* What has been read and rejected was answered, what was refused is refused.
LeftTells ==
  \A i \in Profiles : /\ left[i] = "invalid" => phase[i] = "answered"
                      /\ left[i] = "refused" => Refusable(i)

\* The copies of a post are sent one after the other; the browser waits for a
\* reply only when there is one.
CopiesInOrder ==
  /\ \A i \in Profiles : \E k \in 0..Copies : Sent(i) = 1..k
  /\ pc = "wait" => 1 \in Sent(at)

CallInv == /\ TypeOK /\ CopiesInOrder
           /\ NothingAhead /\ AnswersAccepted /\ HandlersTell
           /\ ReadIsAnswered /\ LeftTells

\* What is answered, and what is refused or closed with leave, stays so.
LEMMA SettledStays ==
  ASSUME TypeOK, [Next]_vars, NEW i \in Profiles
  PROVE  /\ phase[i] = "answered" => phase'[i] = "answered"
         /\ Refusable(i) => Refusable(i)'
<1>1. CASE UNCHANGED <<phase, mayFallBack>>
  BY <1>1 DEF Refusable
<1>2. ASSUME NEW j \in Profiles, Dispatch(j)
      PROVE  /\ phase[i] = "answered" => phase'[i] = "answered"
             /\ Refusable(i) => Refusable(i)'
  BY <1>2 DEF Dispatch, TypeOK, Ledger!LedgerTypeOK, Ledger!Authorize, Ledger!Send,
     Ledger!Doubt, Ledger!Refuse, Ledger!LoseResult, Ledger!Close, Ledger!Answer,
     Ledger!Move, Refusable
<1>3. CASE ~(\E j \in Profiles : Dispatch(j))
  <2>1. UNCHANGED <<phase, mayFallBack>>
    BY <1>3 DEF Next, Browser, GoOn, Hang, Approve, Receive, StopWaiting, Poll, PollDeadline,
       Validate, Network, Gateway, LookUp, Reserve, Stream, Expire, RunChanges,
       vars, outcome
  <2>2. QED
    BY <1>1, <2>1
<1>4. QED
  BY <1>2, <1>3

\* A step of anybody but the browser leaves it where it is.
LEMMA OthersKeep ==
  ASSUME CallInv, [Next]_vars, UNCHANGED browser
  PROVE  NothingAhead' /\ ReadIsAnswered' /\ LeftTells'
<1>1. UNCHANGED <<pc, at, left>>
  BY DEF browser
<1>2. at \in Profiles
  BY DEF CallInv, TypeOK
<1>3. NothingAhead'
  BY <1>1 DEF CallInv, NothingAhead
<1>4. ReadIsAnswered'
  BY <1>1, <1>2, SettledStays DEF CallInv, ReadIsAnswered
<1>5. LeftTells'
  BY <1>1, SettledStays DEF CallInv, LeftTells
<1>6. QED
  BY <1>3, <1>4, <1>5

\* The browser leaves the profile it is at for what it knows of it.
LEMMA LeaveKeeps ==
  ASSUME CallInv, NEW why \in Reasons, Leave(why), pc \notin Ends,
         UNCHANGED <<phase, mayFallBack>>,
         why = "invalid" => phase[at] = "answered",
         why = "refused" => Refusable(at)
  PROVE  NothingAhead' /\ ReadIsAnswered' /\ LeftTells'
<1>1. /\ left' = [left EXCEPT ![at] = why]
      /\ \/ at' = at + 1 /\ pc' = "approve"
         \/ at' = at /\ pc' = "exhausted"
  BY DEF Leave
<1>2. left \in [Profiles -> Reasons] /\ at \in 1..N
  BY DEF CallInv, TypeOK, Reasons, Profiles
<1>3. ASSUME NEW i \in Profiles PROVE left'[i] = IF i = at THEN why ELSE left[i]
  BY <1>1, <1>2
<1>4. ASSUME NEW i \in Profiles, left'[i] # "no"
      PROVE  i < at' \/ (i = at' /\ pc' = "exhausted")
  <2>1. i \in 1..N
    BY DEF Profiles
  <2>2. i = at \/ i < at
    BY <1>3, <1>4 DEF CallInv, NothingAhead, Ends
  <2>3. QED
    BY <1>1, <1>2, <2>1, <2>2
<1>5. NothingAhead'
  BY <1>4 DEF NothingAhead
<1>6. ReadIsAnswered'
  BY <1>1 DEF ReadIsAnswered
<1>7. LeftTells'
  BY <1>3 DEF CallInv, LeftTells, Refusable
<1>8. QED
  BY <1>5, <1>6, <1>7

LEMMA BecomeKeeps ==
  ASSUME CallInv, NEW what, Become(what), pc # "exhausted",
         UNCHANGED <<phase, mayFallBack>>,
         what \in {"validate", "returned"} => phase[at] = "answered"
  PROVE  NothingAhead' /\ ReadIsAnswered' /\ LeftTells'
  BY DEF CallInv, Become, NothingAhead, ReadIsAnswered, LeftTells, Refusable

\* The newest copy of a post that was sent is one of its copies.
LEMMA NewestSent ==
  ASSUME CallInv, pc = "wait" PROVE Newest(at) \in Numbers
<1>1. at \in Profiles /\ 1 \in Sent(at)
  BY DEF CallInv, CopiesInOrder, TypeOK
<1>2. PICK k \in 0..Copies : Sent(at) = 1..k
  BY <1>1 DEF CallInv, CopiesInOrder
<1>3. k \in Sent(at) /\ \A d \in Sent(at) : d <= k
  BY <1>1, <1>2, RouteAssumption
<1>4. Newest(at) \in Sent(at)
  BY <1>3 DEF Newest
<1>5. QED
  BY <1>4 DEF Sent

LEMMA BrowserKeeps ==
  ASSUME CallInv, Browser
  PROVE  NothingAhead' /\ ReadIsAnswered' /\ LeftTells'
<1>1. UNCHANGED <<phase, mayFallBack>> /\ pc \notin Ends /\ pc # "exhausted"
  BY DEF Browser, GoOn, Hang, Approve, Receive, StopWaiting, Poll, PollDeadline, Validate,
     outcome, Ends
<1>2. CASE Approve
  BY <1>1, <1>2, LeaveKeeps, BecomeKeeps DEF Approve, Reasons
<1>3. CASE Receive
  <2>1. Newest(at) \in Numbers
    BY <1>3, NewestSent DEF Receive
  <2>2. /\ Reply = "done" => phase[at] = "answered"
        /\ Reply = "refused" => Refusable(at)
    BY <2>1 DEF CallInv, HandlersTell, TypeOK, Reply
  <2>3. CASE Leave("rejected") \/ (Reply = "refused" /\ Leave("refused"))
    BY <1>1, <2>2, <2>3, LeaveKeeps DEF Reasons
  <2>4. CASE Become("poll") \/ (Reply = "done" /\ Become("validate"))
    BY <1>1, <2>2, <2>4, BecomeKeeps
  <2>5. QED
    BY <1>3, <2>3, <2>4 DEF Receive
<1>4. CASE StopWaiting \/ PollDeadline
  BY <1>1, <1>4, BecomeKeeps DEF StopWaiting, PollDeadline
<1>5. CASE Poll
  <2>1. CASE UNCHANGED <<pc, at, left>>
    BY <1>1, <2>1 DEF CallInv, NothingAhead, ReadIsAnswered, LeftTells, Refusable
  <2>2. CASE Leave("absent") \/ (Refusable(at) /\ Leave("refused"))
    BY <1>1, <2>2, LeaveKeeps DEF Reasons
  <2>3. CASE (Readable(at) /\ Become("validate")) \/ Become("failed")
    BY <1>1, <2>3, BecomeKeeps DEF Readable
  <2>4. QED
    BY <1>5, <2>1, <2>2, <2>3 DEF Poll
<1>6. CASE Validate
  <2>1. phase[at] = "answered"
    BY <1>6 DEF Validate, CallInv, ReadIsAnswered
  <2>2. QED
    BY <1>1, <1>6, <2>1, LeaveKeeps, BecomeKeeps DEF Validate, Reasons
<1>7. CASE Hang
  BY <1>1, <1>7, BecomeKeeps DEF Hang
<1>8. QED
  BY <1>2, <1>3, <1>4, <1>5, <1>6, <1>7 DEF Browser, GoOn

\* A handler that goes on has been sent before, and a copy is sent after the
\* one before it.
LEMMA CopiesKeep ==
  ASSUME CallInv, [Next]_vars PROVE CopiesInOrder'
<1>1. 1 \in Numbers /\ Copies \in Nat /\ N \in Nat
  BY RouteAssumption DEF Numbers
<1>2. handler \in [Profiles -> [Numbers -> HandlerStates]] /\ at \in Profiles
  BY DEF CallInv, TypeOK, HandlerStates
<1>3. CASE UNCHANGED handler /\ (pc' = "wait" => pc = "wait" /\ at' = at)
  <2>1. \A i : Sent(i)' = Sent(i)
    BY <1>3 DEF Sent
  <2>2. pc' = "wait" => 1 \in (Sent(at))'
    BY <1>3 DEF CallInv, CopiesInOrder, Sent
  <2>3. QED
    BY <2>1, <2>2 DEF CallInv, CopiesInOrder
<1>4. ASSUME Approve, Goes(at, 1, "transit"), Become("wait") PROVE CopiesInOrder'
  <2>1. ASSUME NEW i \in Profiles PROVE Sent(i)' = IF i = at THEN Sent(i) \cup {1} ELSE Sent(i)
    BY <1>1, <1>2, <1>4 DEF Goes, Sent
  <2>2. ASSUME NEW i \in Profiles PROVE \E k \in 0..Copies : Sent(i)' = 1..k
    <3>1. PICK k \in 0..Copies : Sent(i) = 1..k
      BY DEF CallInv, CopiesInOrder
    <3>2. CASE i # at \/ k # 0
      <4>1. i = at => 1 \in Sent(i)
        BY <3>1, <3>2, <1>1
      <4>2. Sent(i)' = Sent(i)
        BY <2>1, <4>1
      <4>3. QED
        BY <3>1, <4>2
    <3>3. CASE i = at /\ k = 0
      <4>1. Sent(i)' = 1..1 /\ 1 \in 0..Copies
        BY <2>1, <3>1, <3>3, RouteAssumption
      <4>2. QED
        BY <4>1
    <3>4. QED
      BY <3>2, <3>3
  <2>3. 1 \in Sent(at)' /\ at' = at
    BY <1>2, <1>4, <2>1 DEF Become
  <2>4. 1 \in (Sent(at))'
    BY <2>3 DEF Sent
  <2>5. QED
    BY <2>2, <2>4 DEF CopiesInOrder
<1>5. ASSUME NEW j \in Profiles, NEW c \in Numbers, NEW what \in HandlerStates,
             what # "none", Goes(j, c, what), UNCHANGED <<pc, at>>,
             handler[j][c] # "none" \/ c - 1 \in Sent(j)
      PROVE  CopiesInOrder'
  <2>1. ASSUME NEW i \in Profiles PROVE Sent(i)' = IF i = j THEN Sent(i) \cup {c} ELSE Sent(i)
    BY <1>2, <1>5 DEF Goes, Sent
  <2>2. ASSUME NEW i \in Profiles PROVE \E k \in 0..Copies : Sent(i)' = 1..k
    <3>1. PICK k \in 0..Copies : Sent(i) = 1..k
      BY DEF CallInv, CopiesInOrder
    <3>2. CASE i # j \/ c \in 1..k
      <4>1. Sent(i)' = Sent(i)
        BY <2>1, <3>1, <3>2
      <4>2. QED
        BY <3>1, <4>1
    <3>3. CASE i = j /\ c \notin 1..k
      <4>1. c - 1 \in 1..k /\ c \in 1..Copies
        BY <1>5, <3>1, <3>3 DEF Sent, Numbers
      <4>2. c = k + 1
        BY <1>1, <3>3, <4>1
      <4>3. (1..k) \cup {k + 1} = 1..(k + 1)
        BY <1>1
      <4>4. Sent(i)' = (1..k) \cup {k + 1}
        BY <2>1, <3>1, <3>3, <4>2
      <4>5. k + 1 \in 0..Copies
        BY <1>1, <4>1, <4>2
      <4>6. QED
        BY <4>3, <4>4, <4>5
    <3>4. QED
      BY <3>2, <3>3
  <2>3. pc' = "wait" => 1 \in Sent(at)'
    BY <1>2, <1>5, <2>1 DEF CallInv, CopiesInOrder
  <2>4. pc' = "wait" => 1 \in (Sent(at))'
    BY <1>5, <2>3 DEF Sent
  <2>5. QED
    BY <2>2, <2>4 DEF CopiesInOrder
<1>6. CASE Browser
  <2>1. CASE Approve
    <3>1. \/ Goes(at, 1, "transit") /\ Become("wait")
          \/ UNCHANGED handler /\ pc' # "wait"
      BY <2>1 DEF Approve, Goes, Leave, Become
    <3>2. QED
      BY <1>3, <1>4, <2>1, <3>1
  <2>2. CASE Receive \/ StopWaiting \/ Poll \/ PollDeadline \/ Validate \/ Hang
    <3>1. UNCHANGED handler
      BY <2>2 DEF Receive, StopWaiting, Poll, PollDeadline, Validate, Hang
    <3>2. pc' = "wait" => pc = "wait" /\ at' = at
      BY <2>2 DEF Receive, StopWaiting, Poll, PollDeadline, Validate, Hang, Leave, Become
    <3>3. QED
      BY <1>3, <3>1, <3>2
  <2>3. QED
    BY <1>6, <2>1, <2>2 DEF Browser, GoOn
<1>7. ASSUME NEW i \in Profiles, NEW c \in Numbers, Network(i, c) \/ Gateway(i, c)
      PROVE  CopiesInOrder'
  <2>1. UNCHANGED <<pc, at>>
    BY <1>7 DEF Network, Gateway, LookUp, Reserve, Stream, browser
  <2>2. PICK what \in HandlerStates \ {"none"} : Goes(i, c, what)
    BY <1>7 DEF Network, Gateway, LookUp, Reserve, Stream, HandlerStates
  <2>3. handler[i][c] # "none" \/ c - 1 \in Sent(i)
    BY <1>7 DEF Network, Gateway, LookUp, Reserve, Stream
  <2>4. QED
    BY <1>5, <2>1, <2>2, <2>3
<1>8. CASE (\E i \in Profiles : Dispatch(i) \/ Expire(i)) \/ RunChanges \/ UNCHANGED vars
  BY <1>3, <1>8 DEF Dispatch, Expire, RunChanges, vars, browser
<1>9. QED
  BY <1>6, <1>7, <1>8 DEF Next

LEMMA AnswersKeep ==
  ASSUME CallInv, [Next]_vars PROVE AnswersAccepted'
<1>1. CASE UNCHANGED <<phase, sends, stage>>
  BY <1>1 DEF CallInv, AnswersAccepted
<1>2. ASSUME NEW i \in Profiles, NEW c \in Numbers, Reserve(i, c) PROVE AnswersAccepted'
  <2>1. UNCHANGED <<phase, sends>>
    BY <1>2 DEF Reserve, outcome
  <2>2. UNCHANGED stage \/ (stage[i] # "succeeded" /\ stage' = [stage EXCEPT ![i] = "active"])
    BY <1>2 DEF Reserve, rows
  <2>3. QED
    BY <2>1, <2>2 DEF CallInv, AnswersAccepted, TypeOK
<1>3. ASSUME NEW i \in Profiles, Dispatch(i) PROVE AnswersAccepted'
  <2>1. /\ phase \in [Profiles -> Ledger!Phases] /\ sends \in [Profiles -> Nat]
        /\ stage \in [Profiles -> {"none", "active", "succeeded"}]
    BY DEF CallInv, TypeOK, Ledger!LedgerTypeOK
  <2>2. CASE Ledger!Answer(i) /\ stage' = [stage EXCEPT ![i] = "succeeded"]
    BY <2>1, <2>2 DEF Ledger!Answer, Ledger!Move, CallInv, AnswersAccepted
  <2>3. CASE Ledger!Send(i) /\ UNCHANGED stage
    BY <2>1, <2>3 DEF Ledger!Send, CallInv, AnswersAccepted
  <2>4. CASE /\ \/ Ledger!Authorize(i) \/ Ledger!Doubt(i) \/ Ledger!Refuse(i)
                \/ Ledger!LoseResult(i) \/ Ledger!Close(i)
             /\ UNCHANGED stage
    BY <2>1, <2>4 DEF Ledger!Authorize, Ledger!Doubt, Ledger!Refuse, Ledger!LoseResult,
       Ledger!Close, Ledger!Move, CallInv, AnswersAccepted
  <2>5. QED
    BY <1>3, <2>2, <2>3, <2>4 DEF Dispatch
<1>4. QED
  BY <1>1, <1>2, <1>3 DEF Next, Browser, GoOn, Hang, Approve, Receive, StopWaiting, Poll,
     PollDeadline, Validate, Network, Gateway, LookUp, Stream, Expire, RunChanges,
     vars, rows, outcome

\* What a handler tells was true when it looked, and stays so.
LEMMA TellingKeeps ==
  ASSUME CallInv, [Next]_vars PROVE HandlersTell'
<1>1. TypeOK
  BY DEF CallInv
<1>2. ASSUME NEW i \in Profiles, NEW c \in Numbers,
             handler'[i][c] \in {"done", "refused"} => handler'[i][c] = handler[i][c]
      PROVE  /\ handler'[i][c] = "done" => phase'[i] = "answered"
             /\ handler'[i][c] = "refused" => Refusable(i)'
  BY <1>1, <1>2, SettledStays DEF CallInv, HandlersTell
<1>3. ASSUME NEW i \in Profiles, NEW c \in Numbers, Stream(i, c) PROVE HandlersTell'
  <2>1. UNCHANGED <<phase, mayFallBack>>
    BY <1>3 DEF Stream, outcome
  <2>2. PICK what \in {"done", "refused", "uncertain"} :
          /\ Goes(i, c, what)
          /\ what = "done" => phase[i] = "answered"
          /\ what = "refused" => Refusable(i)
    BY <1>3 DEF Stream, Readable
  <2>3. \A j \in Profiles, d \in Numbers :
          handler'[j][d] = IF j = i /\ d = c THEN what ELSE handler[j][d]
    BY <1>1, <2>2 DEF Goes, TypeOK
  <2>4. QED
    BY <2>1, <2>2, <2>3 DEF CallInv, HandlersTell, Refusable
<1>4. ASSUME NEW i \in Profiles, NEW c \in Numbers, NEW what,
             what \notin {"done", "refused"}, Goes(i, c, what)
      PROVE  HandlersTell'
  <2>1. \A j \in Profiles, d \in Numbers :
          handler'[j][d] = IF j = i /\ d = c THEN what ELSE handler[j][d]
    BY <1>1, <1>4 DEF Goes, TypeOK
  <2>2. QED
    BY <1>2, <1>4, <2>1 DEF HandlersTell
<1>5. ASSUME NEW i \in Profiles, NEW c \in Numbers,
             Network(i, c) \/ LookUp(i, c) \/ Reserve(i, c)
      PROVE  HandlersTell'
  BY <1>4, <1>5 DEF Network, LookUp, Reserve
<1>6. CASE UNCHANGED handler
  BY <1>2, <1>6 DEF HandlersTell
<1>7. CASE Browser
  <2>1. 1 \in Numbers /\ at \in Profiles
    BY <1>1, RouteAssumption DEF Numbers, TypeOK
  <2>2. UNCHANGED handler \/ Goes(at, 1, "transit")
    BY <1>7 DEF Browser, GoOn, Hang, Approve, Receive, StopWaiting, Poll, PollDeadline,
       Validate, Goes
  <2>3. QED
    BY <1>4, <1>6, <2>1, <2>2
<1>8. QED
  BY <1>3, <1>5, <1>6, <1>7 DEF Next, Gateway, Dispatch, Expire, RunChanges, vars

LEMMA NextCall == CallInv /\ [Next]_vars => CallInv'
<1> SUFFICES ASSUME CallInv, [Next]_vars PROVE CallInv'
  OBVIOUS
<1>1. TypeOK'
  BY NextTyped DEF CallInv
<1>2. Browser \/ UNCHANGED browser
  BY DEF Next, Network, Gateway, LookUp, Reserve, Stream, Dispatch, Expire,
     RunChanges, vars
<1>3. NothingAhead' /\ ReadIsAnswered' /\ LeftTells'
  BY <1>2, BrowserKeeps, OthersKeep
<1>4. QED
  BY <1>1, <1>3, CopiesKeep, AnswersKeep, TellingKeeps DEF CallInv

LEMMA CallInvariant == Spec => []CallInv
<1>1. Init => CallInv
  <2> SUFFICES ASSUME Init PROVE CallInv
    OBVIOUS
  <2>1. TypeOK
    BY InitTyped
  <2>2. \A i \in Profiles : Sent(i) = 1..0
    BY DEF Init, Sent
  <2>3. CopiesInOrder
    BY <2>2, RouteAssumption DEF CopiesInOrder, Init
  <2>4. QED
    BY <2>1, <2>3 DEF Init, CallInv, NothingAhead, AnswersAccepted, HandlersTell,
       ReadIsAnswered, LeftTells, Ledger!Init
<1>2. QED
  BY <1>1, NextCall, PTL DEF Spec

\* What runStage returns was asked for once, answered, and accepted for the
\* stage of the current profile, whatever the network does to the posts.
THEOREM ReturnedIsAnswer == Spec => []ReturnedWasAnswered
<1>1. CallInv => ReturnedWasAnswered
  <2> SUFFICES ASSUME CallInv, pc \in {"validate", "returned"}
               PROVE  /\ phase[at] = "answered" /\ sends[at] = 1
                      /\ stage[at] = "succeeded" /\ left[at] = "no"
    BY DEF ReturnedWasAnswered
  <2>1. at \in Profiles /\ at \in Nat
    BY RouteAssumption DEF CallInv, TypeOK, Profiles
  <2>2. phase[at] = "answered"
    BY DEF CallInv, ReadIsAnswered
  <2>3. left[at] = "no"
    BY <2>1 DEF CallInv, NothingAhead
  <2>4. QED
    BY <2>1, <2>2, <2>3 DEF CallInv, AnswersAccepted
<1>2. QED
  BY <1>1, CallInvariant, PTL

-----------------------------------------------------------------------------
(* What is left behind: one copy of each post, and prompt handlers *)

Single == Copies = 1 /\ Prompt

\* An attempt was reserved by the one handler there is, which knows of it.
PostsReserve ==
  \A i \in Profiles :
    reserved[i] => handler[i][1] \in {"stream", "uncertain", "done", "refused"}

\* Nothing is posted for a profile before its turn.
PostsToCome ==
  \A i \in Profiles :
    (i > at \/ (i = at /\ pc = "approve")) => handler[i][1] = "none"

\* Nobody will reserve an attempt for a profile that was left without one.
LeftIsOver ==
  \A i \in Profiles :
    left[i] \in {"unapproved", "rejected", "absent"} =>
      ~reserved[i] /\ handler[i][1] \notin {"transit", "unreserved"}

LeftInv == PostsReserve /\ PostsToCome /\ LeftIsOver

\* The browser leaves a profile without an attempt when it knows that none
\* comes.
LEMMA LeaveIsOver ==
  ASSUME CallInv, LeftInv, NEW why \in Reasons, Leave(why),
         UNCHANGED <<handler, reserved>>,
         why \in {"unapproved", "rejected", "absent"} =>
           ~reserved[at] /\ handler[at][1] \notin {"transit", "unreserved"}
  PROVE  LeftInv'
<1>1. /\ left' = [left EXCEPT ![at] = why]
      /\ \/ at' = at + 1 /\ pc' = "approve"
         \/ at' = at /\ pc' = "exhausted"
  BY DEF Leave
<1>2. left \in [Profiles -> Reasons] /\ at \in 1..N
  BY DEF CallInv, TypeOK, Reasons, Profiles
<1>3. PostsReserve' /\ LeftIsOver'
  BY <1>1, <1>2 DEF LeftInv, PostsReserve, LeftIsOver
<1>4. ASSUME NEW i \in Profiles, i > at' \/ (i = at' /\ pc' = "approve")
      PROVE  handler'[i][1] = "none"
  <2>1. i \in 1..N
    BY DEF Profiles
  <2>2. i > at
    BY <1>1, <1>2, <1>4, <2>1
  <2>3. QED
    BY <2>2 DEF LeftInv, PostsToCome
<1>5. QED
  BY <1>3, <1>4 DEF LeftInv, PostsToCome

\* Nothing else of the browser's reserves or leaves.
LEMMA BecomeIsOver ==
  ASSUME LeftInv, UNCHANGED <<at, left, handler, reserved>>,
         pc' = pc \/ pc' # "approve"
  PROVE  LeftInv'
  BY DEF LeftInv, PostsReserve, PostsToCome, LeftIsOver

\* A handler of profile i goes on; it reserves only from "unreserved".
LEMMA HandlerIsOver ==
  ASSUME Single, CallInv, LeftInv, NEW i \in Profiles, NEW c \in Numbers,
         Network(i, c) \/ Gateway(i, c)
  PROVE  LeftInv'
<1>1. c = 1 /\ handler[i] \in [Numbers -> HandlerStates] /\ 1 \in Numbers
  BY DEF Single, Numbers, CallInv, TypeOK, HandlerStates
<1>2. UNCHANGED <<pc, at, left>>
  BY DEF Network, Gateway, LookUp, Reserve, Stream, browser
<1>3. handler[i][1] # "none"
  <2>1. PICK k \in 0..Copies : Sent(i) = 1..k
    BY DEF CallInv, CopiesInOrder
  <2>2. c - 1 \notin Sent(i)
    BY <1>1, <2>1 DEF Single
  <2>3. QED
    BY <1>1, <2>2 DEF Network, Gateway, LookUp, Reserve, Stream
<1>4. PICK what \in HandlerStates : Goes(i, c, what)
  BY DEF Network, Gateway, LookUp, Reserve, Stream, HandlerStates
<1>5. \A j \in Profiles : handler'[j][1] = IF j = i THEN what ELSE handler[j][1]
  BY <1>1, <1>4 DEF Goes, CallInv, TypeOK
<1>6. /\ handler[i][1] \in {"stream", "uncertain", "done", "refused"} =>
            what \in {"stream", "uncertain", "done", "refused"}
      /\ reserved'[i] => reserved[i] \/ what \in {"stream", "uncertain"}
      /\ reserved[i] /\ handler[i][1] \notin {"transit", "unreserved"} =>
            what \in {"stream", "uncertain", "done", "refused"}
  BY <1>1, <1>3, <1>4, <1>5
     DEF Network, Gateway, LookUp, Reserve, Stream, Goes, rows, LeftInv, PostsReserve,
         CallInv, TypeOK
<1>7. /\ what \in {"transit", "unreserved"} =>
           handler[i][1] \in {"transit", "unreserved"}
      /\ reserved'[i] => reserved[i] \/ handler[i][1] = "unreserved"
  BY <1>1, <1>3, <1>4, <1>5
     DEF Network, Gateway, LookUp, Reserve, Stream, Goes, rows, CallInv, TypeOK
<1>8. \A j \in Profiles : j # i => reserved'[j] = reserved[j]
  BY DEF Network, Gateway, LookUp, Reserve, Stream, rows, CallInv, TypeOK
<1>9. PostsReserve'
  BY <1>5, <1>6, <1>8 DEF LeftInv, PostsReserve
<1>10. PostsToCome'
  BY <1>2, <1>3, <1>5 DEF LeftInv, PostsToCome
<1>11. LeftIsOver'
  BY <1>2, <1>5, <1>7, <1>8 DEF LeftInv, LeftIsOver
<1>12. QED
  BY <1>9, <1>10, <1>11 DEF LeftInv

LEMMA BrowserIsOver ==
  ASSUME Single, CallInv, LeftInv, Browser PROVE LeftInv'
<1>1. 1 \in Numbers /\ Numbers = {1} /\ at \in Profiles /\ UNCHANGED reserved
  BY DEF Single, Numbers, CallInv, TypeOK, Browser, GoOn, Hang, Approve, Receive, StopWaiting,
     Poll, PollDeadline, Validate, rows
<1>2. ASSUME NEW what, what # "approve", Become(what), UNCHANGED handler PROVE LeftInv'
  BY <1>1, <1>2, BecomeIsOver DEF Become
<1>3. CASE Approve
  <2>1. handler[at][1] = "none" /\ ~reserved[at]
    BY <1>1, <1>3 DEF Approve, LeftInv, PostsToCome, PostsReserve
  <2>2. CASE Leave("unapproved") /\ UNCHANGED handler
    BY <1>1, <2>1, <2>2, LeaveIsOver DEF Reasons
  <2>3. CASE Become("failed") /\ UNCHANGED handler
    BY <1>2, <2>3
  <2>4. CASE Become("wait") /\ handler' = [handler EXCEPT ![at][1] = "transit"]
    <3>1. left[at] = "no"
      BY <1>1, <1>3, RouteAssumption DEF Approve, CallInv, NothingAhead, Profiles
    <3>2. \A i \in Profiles : handler'[i][1] = IF i = at THEN "transit" ELSE handler[i][1]
      BY <1>1, <2>4 DEF CallInv, TypeOK
    <3>3. UNCHANGED <<at, left, reserved>> /\ pc' = "wait"
      BY <1>1, <2>4 DEF Become
    <3>4. \A i \in Profiles : i > at => i # at
      BY <1>1, RouteAssumption DEF Profiles
    <3>5. PostsReserve' /\ LeftIsOver'
      BY <2>1, <3>1, <3>2, <3>3 DEF LeftInv, PostsReserve, LeftIsOver
    <3>6. PostsToCome'
      BY <3>2, <3>3, <3>4 DEF LeftInv, PostsToCome
    <3>7. QED
      BY <3>5, <3>6 DEF LeftInv
  <2>5. QED
    BY <1>3, <2>2, <2>3, <2>4 DEF Approve
<1>4. CASE Receive
  <2>1. UNCHANGED handler /\ Newest(at) = 1
    BY <1>1, <1>4, NewestSent DEF Receive
  <2>2. Reply = "rejected" => ~reserved[at] /\ handler[at][1] = "rejected"
    BY <1>1, <2>1 DEF Reply, LeftInv, PostsReserve
  <2>3. CASE Reply = "rejected" /\ Leave("rejected")
    BY <1>1, <2>1, <2>2, <2>3, LeaveIsOver DEF Reasons
  <2>4. CASE Leave("refused")
    BY <1>1, <2>1, <2>4, LeaveIsOver DEF Reasons
  <2>5. CASE Become("poll") \/ Become("validate")
    BY <1>2, <2>1, <2>5
  <2>6. QED
    BY <1>4, <2>3, <2>4, <2>5 DEF Receive
<1>5. CASE StopWaiting \/ PollDeadline
  BY <1>2, <1>5 DEF StopWaiting, PollDeadline
<1>6. CASE Poll
  <2>1. UNCHANGED handler
    BY <1>6 DEF Poll
  <2>2. CASE UNCHANGED <<pc, at, left>>
    BY <1>1, <2>1, <2>2, BecomeIsOver
  <2>3. CASE ~reserved[at] /\ (Prompt => ~MayStillReserve(at)) /\ Leave("absent")
    BY <1>1, <2>1, <2>3, LeaveIsOver DEF Single, MayStillReserve, Reasons
  <2>4. CASE Leave("refused")
    BY <1>1, <2>1, <2>4, LeaveIsOver DEF Reasons
  <2>5. CASE Become("validate") \/ Become("failed")
    BY <1>2, <2>1, <2>5
  <2>6. QED
    BY <1>6, <2>2, <2>3, <2>4, <2>5 DEF Poll
<1>7. CASE Validate
  <2>1. UNCHANGED handler
    BY <1>7 DEF Validate
  <2>2. CASE Leave("invalid")
    BY <1>1, <2>1, <2>2, LeaveIsOver DEF Reasons
  <2>3. CASE Become("returned")
    BY <1>2, <2>1, <2>3
  <2>4. QED
    BY <1>7, <2>2, <2>3 DEF Validate
<1>8. CASE Hang
  BY <1>2, <1>8 DEF Hang
<1>9. QED
  BY <1>3, <1>4, <1>5, <1>6, <1>7, <1>8 DEF Browser, GoOn

LEMMA NextLeft == Single /\ CallInv /\ LeftInv /\ [Next]_vars => LeftInv'
<1> SUFFICES ASSUME Single, CallInv, LeftInv, [Next]_vars PROVE LeftInv'
  OBVIOUS
<1>1. CASE (\E i \in Profiles : Dispatch(i) \/ Expire(i)) \/ RunChanges \/ UNCHANGED vars
  <2>1. UNCHANGED <<pc, at, left, handler, reserved>>
    BY <1>1 DEF Dispatch, Expire, RunChanges, vars, browser, rows
  <2>2. QED
    BY <2>1, BecomeIsOver
<1>2. QED
  BY <1>1, BrowserIsOver, HandlerIsOver DEF Next

\* With one delivery of each post and handlers that reserve within the grace
\* the browser gives them, it leaves no profile behind whose attempt is in
\* doubt or may still be made, for routes of any length.
THEOREM LeftIsSettled == Single => (Spec => []LeftBehindIsSettled)
<1> SUFFICES ASSUME Single PROVE Spec => []LeftBehindIsSettled
  OBVIOUS
<1>1. Init => LeftInv
  BY RouteAssumption DEF Init, LeftInv, PostsReserve, PostsToCome, LeftIsOver, Numbers
<1>2. CallInv /\ LeftInv /\ [Next]_vars => LeftInv'
  BY NextLeft
<1>3. CallInv /\ LeftInv => LeftBehindIsSettled
  BY DEF CallInv, TypeOK, LeftTells, LeftInv, LeftIsOver, LeftBehindIsSettled
<1>4. QED
  BY <1>1, <1>2, <1>3, CallInvariant, PTL DEF Spec

=============================================================================
