---------------------------- MODULE LexerProofs ----------------------------
(***************************************************************************)
(* Theorems about the PascaLIGO lexer, for every source file: its queue is  *)
(* first-in first-out, what the token stream promises its parser, and that  *)
(* the units scanned are the text, each at the place that its region gives. *)
(***************************************************************************)
EXTENDS Lexer, WellFoundedInduction, FiniteSetTheorems, TLAPS

(* The pair of lists of FQueue.ml is a first-in first-out queue, of any       *)
(* length: each operation does to the contents what it should.               *)
Queue(S) == [rear : Seq(S), front : Seq(S)]

\* Reversing gives a sequence of the same length and elements.
LEMMA ReverseSeq ==
    ASSUME NEW S, NEW s \in Seq(S)
    PROVE  Reverse(s) \in Seq(S) /\ Len(Reverse(s)) = Len(s)
  BY DEF Reverse

\* An element put in front comes last when the list is reversed.
LEMMA ReverseFirst ==
    ASSUME NEW S, NEW s \in Seq(S), NEW x \in S
    PROVE  Reverse(<<x>> \o s) = Append(Reverse(s), x)
<1>1. <<x>> \o s \in Seq(S) /\ Len(<<x>> \o s) = Len(s) + 1
  OBVIOUS
<1>2. Reverse(<<x>> \o s) \in Seq(S) /\ Len(Reverse(<<x>> \o s)) = Len(s) + 1
  BY <1>1, ReverseSeq
<1>3. PICK r \in Seq(S) : r = Reverse(s) /\ Len(r) = Len(s)
  BY ReverseSeq
<1>4. Append(r, x) \in Seq(S) /\ Len(Append(r, x)) = Len(s) + 1
  BY <1>3
<1>5. ASSUME NEW i \in 1..(Len(s) + 1)
      PROVE  Reverse(<<x>> \o s)[i] = Append(r, x)[i]
  <2>1. Reverse(<<x>> \o s)[i] = (<<x>> \o s)[Len(s) + 2 - i]
    BY <1>1 DEF Reverse
  <2>2. CASE i = Len(s) + 1
    <3>1. (<<x>> \o s)[1] = x /\ Append(r, x)[i] = x
      BY <1>3, <2>2
    <3> QED
      BY <2>1, <2>2, <3>1
  <2>3. CASE i \in 1..Len(s)
    <3>1. (<<x>> \o s)[Len(s) + 2 - i] = s[Len(s) + 1 - i]
      BY <2>3
    <3>2. Append(r, x)[i] = r[i]
      BY <2>3, <1>3
    <3>3. r[i] = s[Len(s) + 1 - i]
      BY <2>3, <1>3 DEF Reverse
    <3> QED
      BY <2>1, <3>1, <3>2, <3>3
  <2>4. i = Len(s) + 1 \/ i \in 1..Len(s)
    OBVIOUS
  <2> QED
    BY <2>2, <2>3, <2>4, Zenon
<1>6. \A a, b \in Seq(S) :
        Len(a) = Len(b) /\ (\A i \in 1..Len(a) : a[i] = b[i]) => a = b
  OBVIOUS
<1>7. Reverse(<<x>> \o s) = Append(r, x)
  BY <1>2, <1>4, <1>5, <1>6
<1> QED
  BY <1>3, <1>7

\* The front gets the reversed rear when it is empty, and the contents stay.
LEMMA WithFrontKeeps ==
    ASSUME NEW S, NEW q \in Queue(S)
    PROVE  /\ WithFront(q) \in Queue(S)
           /\ Contents(WithFront(q)) = Contents(q)
           /\ Contents(q) # << >> => WithFront(q).front # << >>
<1>1. CASE q.front # << >>
  BY <1>1, ReverseSeq DEF WithFront, Queue, Contents
<1>2. CASE q.front = << >>
  <2>1. WithFront(q) = [rear |-> << >>, front |-> Reverse(q.rear)]
    BY <1>2 DEF WithFront
  <2>2. Reverse(q.rear) \in Seq(S)
    BY ReverseSeq DEF Queue
  <2>3. Reverse(<< >>) = << >>
    BY DEF Reverse
  <2>4. Contents(q) = Reverse(q.rear)
    BY <1>2, <2>2 DEF Contents
  <2>5. Contents(WithFront(q)) = Reverse(q.rear)
    BY <2>1, <2>2, <2>3 DEF Contents
  <2> QED
    BY <2>1, <2>2, <2>4, <2>5 DEF Queue
<1> QED
  BY <1>1, <1>2

-----------------------------------------------------------------------------
\* enq puts its element behind all the others.
THEOREM EnqAppends ==
    ASSUME NEW S, NEW q \in Queue(S), NEW x \in S
    PROVE  Contents(Enq(x, q)) = Append(Contents(q), x)
<1>1. q.front \in Seq(S) /\ q.rear \in Seq(S) /\ Reverse(q.rear) \in Seq(S)
  BY ReverseSeq DEF Queue
<1>2. Enq(x, q).front = q.front /\ Enq(x, q).rear = <<x>> \o q.rear
  BY DEF Enq, Queue
<1>3. Contents(Enq(x, q)) = q.front \o Append(Reverse(q.rear), x)
  BY <1>1, <1>2, ReverseFirst DEF Contents
<1>4. \A f, r \in Seq(S) : f \o Append(r, x) = Append(f \o r, x)
  OBVIOUS
<1> QED
  BY <1>1, <1>3, <1>4 DEF Contents

\* deq takes the oldest element and leaves the others in their order.
THEOREM DeqTakesOldest ==
    ASSUME NEW S, NEW q \in Queue(S), Contents(q) # << >>
    PROVE  /\ Deq(q).item = Head(Contents(q))
           /\ Contents(Deq(q).queue) = Tail(Contents(q))
<1> DEFINE w == WithFront(q)
<1>1. w \in Queue(S) /\ Contents(w) = Contents(q) /\ w.front # << >>
  BY WithFrontKeeps
<1>2. w.front \in Seq(S) /\ Reverse(w.rear) \in Seq(S)
  BY <1>1, ReverseSeq DEF Queue
<1>3. \A f, r \in Seq(S) : f # << >> =>
        Head(f \o r) = Head(f) /\ Tail(f \o r) = Tail(f) \o r
  OBVIOUS
<1>4. Deq(q).queue.front = Tail(w.front) /\ Deq(q).queue.rear = w.rear
  BY <1>1 DEF Deq, Queue
<1>5. Deq(q).item = Head(w.front)
  BY DEF Deq
<1> QED
  BY <1>1, <1>2, <1>3, <1>4, <1>5, ZenonT(30) DEF Contents

\* peek shows the oldest element and keeps every one, in order, as FQueue.mli
\* says of it.
THEOREM PeekKeeps ==
    ASSUME NEW S, NEW q \in Queue(S), Contents(q) # << >>
    PROVE  /\ Peek(q).item = Head(Contents(q))
           /\ Contents(Peek(q).queue) = Contents(q)
<1>1. Deq(q).item = Peek(q).item
  BY DEF Deq, Peek
<1> QED
  BY <1>1, DeqTakesOldest, WithFrontKeeps DEF Peek

----------------------------------------------------------------------------
(***************************************************************************)
(* What the token stream promises its parser, for every source file: the     *)
(* position of the buffer and that of the state agree whenever a rule runs,   *)
(* at most one unit is looked ahead, and the positions that the parser finds  *)
(* in the buffer are those of the token returned.                            *)
(*                                                                           *)
(* A rule either goes on, or returns to the stream with one unit more, or     *)
(* fails; the lemmas say so once for the twenty steps of the rules, and the   *)
(* invariants are proved from these three cases.                             *)
(***************************************************************************)
HoldsOne(q) ==
    \/ q.rear # << >> /\ q = [rear |-> <<Head(q.rear)>>, front |-> << >>]
    \/ q.front # << >> /\ q = [rear |-> << >>, front |-> <<Head(q.front)>>]

Waiting == {"idle", "read", "check", "deliver", "closed"}

\* The logical position, and where it is kept: in the buffer while a rule runs,
\* in buf_reg otherwise.
PosInv ==
    /\ pc \in RuleNames \union Waiting \union {"failed"}
    /\ pc \in RuleNames => caller \in {"read", "check"}
    /\ pc # "failed" => pos.cnum = at
    /\ pc \in RuleNames => buffer.stop = pos
    /\ pc \in Waiting => bufReg.stop = pos

\* What is queued, by what runs.
QueueInv ==
    /\ pc \in RuleNames =>
         /\ units = EmptyQueue
         /\ caller = "check" => token.token.kind \in Breaking
    /\ pc = "check" => HoldsOne(units) /\ token.token.kind \in Breaking
    /\ pc # "check" => units = EmptyQueue \/ HoldsOne(units)
    /\ pc \in {"deliver", "idle"} =>
         units = EmptyQueue \/ token.token.kind \in Breaking

\* The region of the token that is on its way to the parser.
RegionInv ==
    /\ pc \in RuleNames /\ caller = "check" => last = token.token.region
    /\ pc \in {"check", "deliver"} => last = token.token.region
    /\ delivered \in Seq(ToSet(delivered))
    /\ ParserSeesReturnedToken

\* A unit that may follow a token that needs a break.
Apart(unit) == unit.markup # << >> \/ unit.token.kind \notin Breaking
LastBreaks == delivered # << >> /\ Last(delivered).token.kind \in Breaking

\* Behind the last token returned, when it needs a break, there is one unit
\* that has been looked at: queued, or on its way to the parser.
BreakInv ==
    /\ BreaksEnforced
    /\ pc \in {"idle", "read"} /\ LastBreaks =>
         HoldsOne(units) /\ Apart(Peek(units).item)
    /\ pc \in RuleNames /\ caller = "read" => ~LastBreaks
    /\ pc \in {"check", "deliver"} \/ (pc \in RuleNames /\ caller = "check") =>
         (LastBreaks => Apart(token))
    /\ pc = "deliver" /\ token.token.kind \in Breaking =>
         HoldsOne(units) /\ Apart(Peek(units).item)

\* What a step of a rule does, in its three outcomes.
RuleContinues ==
    /\ pc' \in RuleNames
    /\ units' = units /\ last' = last
    /\ buffer'.stop = pos' /\ pos'.cnum = at'
    /\ UNCHANGED <<caller, token, delivered>>

RuleReturns ==
    /\ pc' = caller
    /\ \E u : units' = Enq(u, units)
    /\ last' = last
    /\ bufReg' = buffer' /\ buffer'.stop = pos' /\ pos'.cnum = at'
    /\ UNCHANGED <<caller, token, delivered>>

RuleFails ==
    /\ pc' = "failed"
    /\ UNCHANGED <<units, last, token, delivered>>

-----------------------------------------------------------------------------
\* Where a match leaves the buffer: the engine counts the characters matched
\* from the same place as sync does.
LEMMA MatchFollows ==
    ASSUME pos.cnum = at, buffer.stop = pos, NEW lexeme
    PROVE  /\ Match(lexeme) =>
                /\ buffer'.stop = Synced(lexeme)
                /\ Synced(lexeme).cnum = at'
           /\ MatchLine(lexeme) =>
                /\ buffer'.stop = NewLine(pos, lexeme)
                /\ NewLine(pos, lexeme).cnum = at'
  BY DEF Match, MatchLine, Synced, NewLine, AddNl, ShiftBytes, CurrP, Region, Pos

\* Every step of a rule has one of the three outcomes.
LEMMA RuleStep ==
    ASSUME PosInv, Scanning
    PROVE  RuleContinues \/ RuleReturns \/ RuleFails
<1> USE DEF PosInv
<1>0. pc \in RuleNames
  BY DEF Scanning, InitRule, RuleNames
<1>1. pos.cnum = at /\ buffer.stop = pos
  BY <1>0 DEF RuleNames
<1>2. CASE InitRule
  <2>1. CASE IsPrefix(BOM, Rest)
    BY <1>1, <1>2, <2>1, MatchFollows
    DEF InitRule, RuleContinues, RuleFails, Continue, streamVars, RuleNames, Push, Move, Fail, state
  <2>2. CASE ~IsPrefix(BOM, Rest)
    BY <1>1, <1>2, <2>2
    DEF InitRule, RuleContinues, RuleFails, Continue, streamVars, RuleNames, Push, Move, Fail, state
  <2> QED BY <2>1, <2>2
<1>3. CASE ScanEof
  BY <1>1, <1>3, MatchFollows DEF ScanEof, Enqueue, RuleReturns, Return
<1>4. CASE Unterminated
  BY <1>4 DEF Unterminated, Fail, RuleFails, streamVars, state
<1>5. ASSUME NEW m, Rules(m)
      PROVE  RuleContinues \/ RuleReturns \/ RuleFails
  <2>1. CASE ScanNewline(m)
    BY <1>1, <2>1, MatchFollows
    DEF ScanNewline, RuleContinues, Continue, streamVars, RuleNames, Push, Move
  <2>2. CASE ScanBlank(m)
    BY <1>1, <2>2, MatchFollows
    DEF ScanBlank, RuleContinues, Continue, streamVars, RuleNames, Push, Move
  <2>3. CASE ScanToken(m)
    BY <1>1, <2>3, MatchFollows
    DEF ScanToken, Enqueue, RuleReturns, Return
  <2>4. CASE ScanError(m)
    BY <2>4 DEF ScanError, Fail, RuleFails, streamVars, state
  <2>5. CASE ScanOpening(m)
    BY <1>1, <2>5, MatchFollows
    DEF ScanOpening, RuleContinues, Continue, streamVars, RuleNames, Push, Move
  <2>6. CASE StringContinues(m)
    BY <1>1, <2>6, MatchFollows
    DEF StringContinues, Extend, RuleContinues, Continue, streamVars, RuleNames, Push, Move
  <2>7. CASE StringCloses(m)
    BY <1>1, <2>7, MatchFollows
    DEF StringCloses, ResumeBlock, RuleContinues, Continue, RuleReturns, Return, Enqueue,
        streamVars, RuleNames, Push, Move
  <2>8. CASE StringFails(m)
    BY <2>8 DEF StringFails, Fail, RuleFails, streamVars, state
  <2>9. CASE BlockContinues(m)
    BY <1>1, <2>9, MatchFollows
    DEF BlockContinues, Extend, ExtendLine, RuleContinues, Continue, streamVars, RuleNames, Push, Move
  <2>10. CASE BlockOpens(m)
    BY <1>1, <2>10, MatchFollows
    DEF BlockOpens, RuleContinues, Continue, streamVars, RuleNames, Push, Move
  <2>11. CASE BlockCloses(m)
    BY <1>1, <2>11, MatchFollows
    DEF BlockCloses, ResumeBlock, RuleContinues, Continue, streamVars, RuleNames, Push, Move
  <2>12. CASE LineContinues(m)
    BY <1>1, <2>12, MatchFollows
    DEF LineContinues, Extend, RuleContinues, Continue, streamVars, RuleNames, Push, Move
  <2>13. CASE LineCloses(m)
    BY <1>1, <2>13, MatchFollows
    DEF LineCloses, RuleContinues, Continue, streamVars, RuleNames, Push, Move
  <2> QED
    BY <1>5, <2>1, <2>2, <2>3, <2>4, <2>5, <2>6, <2>7, <2>8, <2>9, <2>10, <2>11,
       <2>12, <2>13 DEF Rules
<1> QED
  BY <1>2, <1>3, <1>4, <1>5 DEF Scanning

-----------------------------------------------------------------------------
\* The queue at the sizes it has here.
LEMMA SmallQueues ==
    /\ \A u : HoldsOne(Enq(u, EmptyQueue))
    /\ \A q : HoldsOne(q) =>
         /\ ~IsEmptyQueue(q)
         /\ Deq(q).queue = EmptyQueue
         /\ HoldsOne(Peek(q).queue)
         /\ Len(Contents(q)) = 1
    /\ Len(Contents(EmptyQueue)) = 0
<1>1. \A u : HoldsOne(Enq(u, EmptyQueue))
  BY DEF HoldsOne, Enq, EmptyQueue
<1>2. ASSUME NEW q, HoldsOne(q)
      PROVE  /\ ~IsEmptyQueue(q) /\ Deq(q).queue = EmptyQueue
             /\ HoldsOne(Peek(q).queue) /\ Len(Contents(q)) = 1
  <2>1. PICK u : \/ q = [rear |-> <<u>>, front |-> << >>]
                 \/ q = [rear |-> << >>, front |-> <<u>>]
    BY <1>2 DEF HoldsOne
  <2>2. Reverse(<<u>>) = <<u>> /\ Reverse(<< >>) = << >>
    BY DEF Reverse
  <2>3. WithFront(q) = [rear |-> << >>, front |-> <<u>>]
    BY <2>1, <2>2 DEF WithFront
  <2>4. ~IsEmptyQueue(q)
    BY <2>1 DEF IsEmptyQueue, EmptyQueue
  <2>5. Deq(q).queue = EmptyQueue
    BY <2>3 DEF Deq, EmptyQueue
  <2>6. HoldsOne(Peek(q).queue)
    BY <2>3 DEF Peek, HoldsOne
  <2>7. Len(Contents(q)) = 1
    <3>1. <<u>> \in Seq({u}) /\ Len(<<u>>) = 1
      OBVIOUS
    <3>2. \/ q.front = <<u>> /\ q.rear = << >>
          \/ q.front = << >> /\ q.rear = <<u>>
      BY <2>1
    <3>3. <<u>> \o << >> = <<u>> /\ << >> \o <<u>> = <<u>>
      BY <3>1
    <3>4. Contents(q) = <<u>>
      BY <2>2, <3>2, <3>3, Zenon DEF Contents
    <3> QED
      BY <3>1, <3>4
  <2> QED
    BY <2>4, <2>5, <2>6, <2>7
<1>3. Len(Contents(EmptyQueue)) = 0
  BY DEF Contents, EmptyQueue, Reverse
<1> QED
  BY <1>1, <1>2, <1>3

\* Looking at the unit that is queued leaves it there.
LEMMA PeekedUnit ==
    ASSUME NEW q, HoldsOne(q)
    PROVE  /\ HoldsOne(Peek(q).queue)
           /\ Peek(Peek(q).queue).item = Peek(q).item
           /\ Deq(q).item = Peek(q).item
<1>1. PICK u : \/ q = [rear |-> <<u>>, front |-> << >>]
               \/ q = [rear |-> << >>, front |-> <<u>>]
  BY DEF HoldsOne
<1>2. Reverse(<<u>>) = <<u>>
  BY DEF Reverse
<1>3. WithFront(q) = [rear |-> << >>, front |-> <<u>>]
  BY <1>1, <1>2 DEF WithFront
<1>4. Peek(q).queue = [rear |-> << >>, front |-> <<u>>] /\ Peek(q).item = u
  BY <1>3 DEF Peek
<1>5. WithFront(Peek(q).queue) = Peek(q).queue
  BY <1>4 DEF WithFront
<1> QED
  BY <1>3, <1>4, <1>5, SmallQueues DEF Peek, Deq

\* The last element of a sequence just appended to, whatever its elements are.
LEMMA Appended ==
    ASSUME NEW s, s \in Seq(ToSet(s)), NEW e
    PROVE  /\ Append(s, e) \in Seq(ToSet(Append(s, e)))
           /\ Last(Append(s, e)) = e
<1>1. Append(s, e) \in Seq(ToSet(s) \union {e})
  OBVIOUS
<1>2. \A i \in 1..Len(Append(s, e)) : Append(s, e)[i] \in ToSet(Append(s, e))
  BY <1>1 DEF ToSet
<1> QED
  BY <1>1, <1>2 DEF Last

\* The logical position is followed, in the buffer or in buf_reg.
LEMMA PosStep ==
    ASSUME PosInv, [Next]_vars
    PROVE  PosInv'
<1> USE DEF PosInv
<1>1. CASE Scanning
  BY <1>1, RuleStep
  DEF Scanning, InitRule, RuleContinues, RuleReturns, RuleFails, RuleNames, Waiting
<1>2. CASE Read
  BY <1>2 DEF Read, streamUnchanged, streamVars, state, RuleNames, Waiting
<1>3. CASE ReadScans
  BY <1>3 DEF ReadScans, EnterScan, streamUnchanged, state, RuleNames, Waiting
<1>4. CASE ReadDequeues
  BY <1>4 DEF ReadDequeues, EnterScan, streamUnchanged, RuleNames, Waiting
<1>5. CASE Check
  BY <1>5 DEF Check, streamUnchanged, streamVars, RuleNames, Waiting
<1>6. CASE Deliver
  BY <1>6 DEF Deliver, streamUnchanged, state, RuleNames, Waiting
<1>7. CASE UNCHANGED vars
  BY <1>7 DEF vars, state, streamVars
<1> QED
  BY <1>1, <1>2, <1>3, <1>4, <1>5, <1>6, <1>7 DEF Next, Stream

\* A rule runs on an empty queue, so that it leaves one unit there.
LEMMA QueueStep ==
    ASSUME PosInv, QueueInv, [Next]_vars
    PROVE  QueueInv'
<1> USE DEF QueueInv
<1>1. CASE Scanning
  <2>1. pc \in RuleNames
    BY <1>1 DEF Scanning, InitRule, RuleNames
  <2>2. CASE RuleContinues
    BY <2>1, <2>2 DEF RuleContinues, RuleNames
  <2>3. CASE RuleReturns
    BY <2>1, <2>3, SmallQueues DEF PosInv, RuleReturns, RuleNames
  <2>4. CASE RuleFails
    BY <2>1, <2>4 DEF RuleFails, RuleNames
  <2> QED
    BY <1>1, <2>2, <2>3, <2>4, RuleStep
<1>2. CASE Read
  BY <1>2 DEF Read, streamVars, state, RuleNames
<1>3. CASE ReadScans
  BY <1>3, SmallQueues DEF ReadScans, EnterScan, state, RuleNames
<1>4. CASE ReadDequeues
  <2>1. HoldsOne(units)
    BY <1>4 DEF ReadDequeues, IsEmptyQueue
  <2>2. units' = EmptyQueue
    BY <1>4, <2>1, SmallQueues DEF ReadDequeues
  <2> QED
    BY <1>4, <2>2 DEF ReadDequeues, EnterScan, RuleNames
<1>5. CASE Check
  BY <1>5, SmallQueues DEF Check, streamVars, RuleNames
<1>6. CASE Deliver
  BY <1>6 DEF Deliver, state, RuleNames
<1>7. CASE UNCHANGED vars
  BY <1>7 DEF vars, state, streamVars
<1> QED
  BY <1>1, <1>2, <1>3, <1>4, <1>5, <1>6, <1>7 DEF Next, Stream

\* The region of the token taken from the queue is kept until it is returned.
LEMMA RegionStep ==
    ASSUME PosInv, RegionInv, [Next]_vars
    PROVE  RegionInv'
<1> USE DEF RegionInv, ParserSeesReturnedToken
<1>1. CASE Scanning
  <2>1. pc \in RuleNames /\ caller \in {"read", "check"}
    BY <1>1 DEF PosInv, Scanning, InitRule, RuleNames
  <2> QED
    BY <1>1, <2>1, RuleStep DEF RuleContinues, RuleReturns, RuleFails, RuleNames
<1>2. CASE Read
  BY <1>2 DEF Read, streamVars, state, RuleNames
<1>3. CASE ReadScans
  BY <1>3 DEF ReadScans, EnterScan, state, RuleNames
<1>4. CASE ReadDequeues
  BY <1>4 DEF ReadDequeues, EnterScan, RuleNames
<1>5. CASE Check
  BY <1>5 DEF Check, streamVars, RuleNames
<1>6. CASE Deliver
  BY <1>6, Appended DEF Deliver, state, RuleNames
<1>7. CASE UNCHANGED vars
  BY <1>7 DEF vars, state, streamVars
<1> QED
  BY <1>1, <1>2, <1>3, <1>4, <1>5, <1>6, <1>7 DEF Next, Stream

\* No step returns a token that touches the one before it.
LEMMA BreakStep ==
    ASSUME PosInv, QueueInv, RegionInv, BreakInv, [Next]_vars
    PROVE  BreakInv'
<1> USE DEF BreakInv, LastBreaks
<1>0. delivered' = delivered => BreaksEnforced'
  BY DEF BreaksEnforced
<1>1. CASE Scanning
  <2>1. pc \in RuleNames /\ caller \in {"read", "check"}
    BY <1>1 DEF PosInv, Scanning, InitRule, RuleNames
  <2> QED
    BY <1>0, <1>1, <2>1, RuleStep DEF RuleContinues, RuleReturns, RuleFails, RuleNames
<1>2. CASE Read
  BY <1>0, <1>2 DEF Read, streamVars, state, RuleNames
<1>3. CASE ReadScans
  <2>1. ~LastBreaks
    BY <1>3 DEF ReadScans, IsEmptyQueue, HoldsOne, EmptyQueue
  <2> QED
    BY <1>0, <1>3, <2>1 DEF ReadScans, EnterScan, state, RuleNames
<1>4. CASE ReadDequeues
  <2>1. HoldsOne(units)
    BY <1>4 DEF ReadDequeues, IsEmptyQueue, QueueInv
  <2>2. token' = Peek(units).item
    BY <1>4, <2>1, PeekedUnit DEF ReadDequeues
  <2>3. LastBreaks => Apart(token')
    BY <1>4, <2>2 DEF ReadDequeues
  <2>4. \/ pc' = "deliver" /\ token'.token.kind \notin Breaking
        \/ pc' \in {"init", "scan"} /\ caller' = "check"
    BY <1>4 DEF ReadDequeues, EnterScan
  <2>5. delivered' = delivered
    BY <1>4 DEF ReadDequeues
  <2> QED
    BY <1>0, <2>3, <2>4, <2>5 DEF RuleNames, Apart
<1>5. CASE Check
  <2>1. HoldsOne(units) /\ token.token.kind \in Breaking
    BY <1>5 DEF Check, QueueInv
  <2>2. HoldsOne(units') /\ Peek(units').item = Peek(units).item
    BY <1>5, <2>1, PeekedUnit DEF Check
  <2>3. /\ token' = token /\ delivered' = delivered /\ pc' \in {"deliver", "failed"}
        /\ pc' = "deliver" => ContextError(token.token, Peek(units).item) = "none"
    BY <1>5 DEF Check, streamVars
  <2>4. pc' = "deliver" => Apart(Peek(units).item)
    BY <2>1, <2>3 DEF ContextError, Apart
  <2> QED
    BY <1>0, <1>5, <2>2, <2>3, <2>4 DEF RuleNames, Apart, Check
<1>6. CASE Deliver
  <2>1. /\ delivered' = Append(delivered, token) /\ units' = units
        /\ pc = "deliver" /\ pc' \in {"closed", "idle"}
    BY <1>6 DEF Deliver, state
  <2>2. delivered \in Seq(ToSet(delivered))
    BY DEF RegionInv
  <2>3. Last(delivered') = token
    BY <2>1, <2>2, Appended
  <2>4. BreaksEnforced'
    <3>1. PICK S : delivered \in Seq(S) /\ token \in S
      <4>1. delivered \in Seq(ToSet(delivered) \union {token})
        BY <2>2
      <4> QED BY <4>1
    <3>2. /\ Len(delivered') = Len(delivered) + 1 /\ Len(delivered) \in Nat
          /\ delivered'[Len(delivered) + 1] = token
          /\ \A i \in 1..Len(delivered) : delivered'[i] = delivered[i]
      BY <2>1, <3>1
    <3>3. ASSUME NEW i \in 2..Len(delivered')
          PROVE  ~ /\ delivered'[i].markup = << >>
                   /\ delivered'[i - 1].token.kind \in Breaking
                   /\ delivered'[i].token.kind \in Breaking
      <4>1. CASE i <= Len(delivered)
        <5>1. i \in 2..Len(delivered) /\ i \in 1..Len(delivered) /\ i - 1 \in 1..Len(delivered)
          BY <3>2, <4>1
        <5> QED BY <3>2, <5>1 DEF BreaksEnforced
      <4>2. CASE i = Len(delivered) + 1
        <5>1. Len(delivered) \in 1..Len(delivered) /\ i - 1 = Len(delivered)
              /\ delivered # << >>
          BY <3>1, <3>2, <4>2
        <5>2. delivered'[i] = token /\ delivered'[i - 1] = Last(delivered)
          BY <3>2, <4>2, <5>1 DEF Last
        <5> QED BY <2>1, <5>1, <5>2 DEF Apart
      <4> QED BY <3>2, <4>1, <4>2
    <3> QED BY <3>3 DEF BreaksEnforced
  <2>5. LastBreaks' => HoldsOne(units) /\ Apart(Peek(units).item)
    BY <2>1, <2>3
  <2> QED
    BY <2>1, <2>4, <2>5 DEF RuleNames
<1>7. CASE UNCHANGED vars
  BY <1>0, <1>7 DEF vars, state, streamVars
<1> QED
  BY <1>1, <1>2, <1>3, <1>4, <1>5, <1>6, <1>7 DEF Next, Stream

\* The invariants hold before the first call.
LEMMA InitHolds == Init => PosInv /\ QueueInv /\ RegionInv /\ BreakInv
<1>1. Init => PosInv /\ QueueInv /\ RegionInv
  BY DEF Init, PosInv, QueueInv, RegionInv, ParserSeesReturnedToken, RuleNames, Waiting,
     MinPos, Pos, Region, EmptyQueue, ToSet
<1>2. Init => BreakInv
  BY DEF Init, BreakInv, BreaksEnforced, LastBreaks, RuleNames
<1> QED
  BY <1>1, <1>2

-----------------------------------------------------------------------------
\* Whatever has been patched for the parser in between, the lexing buffer and
\* the logical state are at the same position while a rule runs
\* (Lexer.mll, patch_buffer and save_region).
THEOREM PositionsFollow == Spec => []PositionsAgree
<1>1. PosInv => PositionsAgree
  BY DEF PosInv, PositionsAgree, RuleNames
<1> QED
  BY <1>1, InitHolds, PosStep, PTL DEF Spec

\* One unit at most is looked ahead, and between two calls only behind a token
\* that check_right_context had to check.
THEOREM LookAheadBounded == Spec => []OneTokenAhead
<1>1. QueueInv => OneTokenAhead
  <2> SUFFICES ASSUME QueueInv
               PROVE  OneTokenAhead
    OBVIOUS
  <2>1. units = EmptyQueue \/ HoldsOne(units)
    BY DEF QueueInv
  <2>2. Len(Contents(units)) <= 1
    <3>1. Len(Contents(units)) = 0 \/ Len(Contents(units)) = 1
      BY <2>1, SmallQueues
    <3>2. \A n : n = 0 \/ n = 1 => n <= 1
      OBVIOUS
    <3> QED
      BY <3>1, <3>2, Zenon
  <2>3. pc = "idle" /\ ~IsEmptyQueue(units) => token.token.kind \in Breaking
    BY DEF QueueInv, IsEmptyQueue
  <2> QED
    BY <2>2, <2>3, Zenon DEF OneTokenAhead
<1> QED
  BY <1>1, InitHolds, PosStep, QueueStep, PTL DEF Spec

\* The parser finds in the buffer the region of the token that it has got
\* (Lexer.mll, read_token).
THEOREM ParserRegions == Spec => []ParserSeesReturnedToken
<1>1. RegionInv => ParserSeesReturnedToken
  BY DEF RegionInv
<1> QED
  BY <1>1, InitHolds, PosStep, RegionStep, PTL DEF Spec

\* Two tokens that need a break between them are never both returned with
\* nothing between them, over any number of calls (Lexer.mll,
\* check_right_context): the check looks at the unit that is returned next,
\* because peek leaves it in the queue and nothing else is queued.
THEOREM BreaksChecked == Spec => []BreaksEnforced
<1>1. BreakInv => BreaksEnforced
  BY DEF BreakInv
<1> QED
  BY <1>1, InitHolds, PosStep, QueueStep, RegionStep, BreakStep, PTL DEF Spec

----------------------------------------------------------------------------
(***************************************************************************)
(* The units are the text.  A rule takes the longest match of a clause; a     *)
(* match is a part of the text, and ends where sync or Lexing.new_line says,  *)
(* because only the clauses for line breaks match characters that break a     *)
(* line, and they match a whole line break.                                   *)
(*                                                                           *)
(* Between the units and the place reached there are the constructs that are  *)
(* open.  Base is where the outermost one begins: up to there the text has    *)
(* been made into units, and from there it is in the thread.  A step of a     *)
(* rule goes on with a construct, makes a unit of the text from Base to the   *)
(* place reached, as markup or as a token, or fails.                          *)
(***************************************************************************)

-----------------------------------------------------------------------------
(* The longest match.                                                      *)

\* A nonempty set of numbers has a least one.
LEMMA LeastOf ==
    ASSUME NEW T, T \subseteq Nat, T # {}
    PROVE  \E n \in T : \A m \in T : n <= m
<1> DEFINE Less == {p \in Nat \X Nat : p[1] < p[2]}
<1>1. IsWellFoundedOn(Less, Nat)
  <2>1. OpToRel(<, Nat) = Less
    BY DEF OpToRel
  <2> QED BY <2>1, NatLessThanWellFounded
<1>2. PICK n \in T : \A m \in T : ~ (<<m, n>> \in Less)
  BY <1>1, WFMin
<1>3. ASSUME NEW m \in T
      PROVE  n <= m
  <2>1. n \in Nat /\ m \in Nat
    OBVIOUS
  <2>2. m < n => <<m, n>> \in Less
    BY <2>1
  <2> QED BY <1>2, <2>1, <2>2
<1> QED
  BY <1>3

Beats(h, g) == h[2] > g[2] \/ (h[2] = g[2] /\ h[1] <= g[1])

\* Of the matches, the first of the longest ones exists.
LEMMA BestExists ==
    ASSUME NEW c \in Nat, NEW n \in Nat, NEW hits, hits # {},
           hits \subseteq (1..c) \X (1..n)
    PROVE  \E h \in hits : \A g \in hits : Beats(h, g)
<1> DEFINE Short == {n - h[2] : h \in hits}
<1>0. \A h \in hits : h[1] \in 1..c /\ h[2] \in 1..n
  OBVIOUS
<1>1. Short \subseteq Nat /\ Short # {}
  BY <1>0
<1>2. PICK s \in Short : \A m \in Short : s <= m
  BY <1>1, LeastOf
<1>3. PICK b \in hits : s = n - b[2]
  OBVIOUS
<1>4. \A g \in hits : b[2] >= g[2]
  <2> TAKE g \in hits
  <2>1. n - b[2] <= n - g[2]
    BY <1>2, <1>3
  <2> QED BY <1>0, <2>1
<1> DEFINE First == {h[1] : h \in {g \in hits : g[2] = b[2]}}
<1>5. First \subseteq Nat /\ First # {}
  BY <1>0
<1>6. PICK f \in First : \A m \in First : f <= m
  BY <1>5, LeastOf
<1>7. PICK h \in hits : h[2] = b[2] /\ f = h[1]
  OBVIOUS
<1>8. ASSUME NEW g \in hits
      PROVE  Beats(h, g)
  <2>1. CASE g[2] = b[2]
    <3>1. h[1] <= g[1]
      BY <1>6, <1>7, <2>1
    <3> QED BY <1>7, <2>1, <3>1 DEF Beats
  <2>2. CASE g[2] # b[2]
    <3>1. b[2] \in Nat /\ g[2] \in Nat /\ b[2] >= g[2]
      BY <1>0, <1>4
    <3>2. b[2] > g[2]
      BY <2>2, <3>1
    <3> QED BY <1>7, <3>2 DEF Beats
  <2> QED BY <2>1, <2>2
<1> QED
  BY <1>8

MatchRules == {"scan", "string", "block", "line"}

\* The clause number i of a rule matches the first n characters of s, and is
\* the one that ocamllex takes.
Taken(rule, s, i, n) ==
    /\ i \in 1..Len(ClausesOf(rule)) /\ n \in 1..Len(s)
    /\ MatchesIn(rule, ClausesOf(rule)[i], SubSeq(s, 1, n))
    /\ \A j \in 1..Len(ClausesOf(rule)), k \in 1..Len(s) :
          MatchesIn(rule, ClausesOf(rule)[j], SubSeq(s, 1, k)) =>
            n > k \/ (n = k /\ i <= j)

\* Every rule matches what is left of the text, unless that is empty.
LEMMA CatchAll ==
    ASSUME NEW S, NEW s \in Seq(S), s # << >>, NEW rule \in MatchRules
    PROVE  /\ Len(ClausesOf(rule)) \in Nat /\ Len(s) \in Nat
           /\ \E j \in 1..Len(ClausesOf(rule)), k \in 1..Len(s) :
                MatchesIn(rule, ClausesOf(rule)[j], SubSeq(s, 1, k))
<1>1. Len(s) \in Nat /\ 1 \in 1..Len(s) /\ Len(SubSeq(s, 1, 1)) = 1
  OBVIOUS
<1>2. Matches("other", SubSeq(s, 1, 1))
  BY <1>1 DEF Matches
<1>3. CASE rule = "scan"
  <2>1. 16 \in 1..16 /\ Len(ClausesOf(rule)) = 16 /\ ClausesOf(rule)[16] = "other"
    BY <1>3 DEF ClausesOf, Clauses
  <2> QED BY <1>1, <1>2, <1>3, <2>1 DEF MatchesIn
<1>4. CASE rule = "string"
  <2>1. 6 \in 1..6 /\ Len(ClausesOf(rule)) = 6 /\ ClausesOf(rule)[6] = "other"
    BY <1>4 DEF ClausesOf, StringClauses
  <2> QED BY <1>1, <1>2, <1>4, <2>1 DEF MatchesIn, MatchesInString
<1>5. CASE rule = "block"
  <2>1. 5 \in 1..5 /\ Len(ClausesOf(rule)) = 5 /\ ClausesOf(rule)[5] = "other"
    BY <1>5 DEF ClausesOf, BlockClauses
  <2> QED BY <1>1, <1>2, <1>5, <2>1 DEF MatchesIn, MatchesInBlock
<1>6. CASE rule = "line"
  <2>1. 2 \in 1..2 /\ Len(ClausesOf(rule)) = 2 /\ ClausesOf(rule)[2] = "other"
    BY <1>6 DEF ClausesOf, LineClauses
  <2> QED BY <1>1, <1>2, <1>6, <2>1 DEF MatchesIn
<1> QED
  BY <1>3, <1>4, <1>5, <1>6 DEF MatchRules

\* ocamllex takes the first of the longest matches.
LEMMA LongestMatch ==
    ASSUME NEW S, NEW s \in Seq(S), s # << >>, NEW rule \in MatchRules
    PROVE  \E i, n : /\ Taken(rule, s, i, n)
                     /\ Longest(rule, s) = [clause |-> ClausesOf(rule)[i],
                                            lexeme |-> SubSeq(s, 1, n)]
<1> DEFINE clauses == ClausesOf(rule)
           hits == {h \in (1..Len(clauses)) \X (1..Len(s)) :
                       MatchesIn(rule, clauses[h[1]], SubSeq(s, 1, h[2]))}
           best == CHOOSE h \in hits : \A g \in hits :
                       h[2] > g[2] \/ (h[2] = g[2] /\ h[1] <= g[1])
<1>1. Len(clauses) \in Nat /\ Len(s) \in Nat
  BY CatchAll
<1>2. PICK j \in 1..Len(clauses), k \in 1..Len(s) :
        MatchesIn(rule, clauses[j], SubSeq(s, 1, k))
  BY CatchAll
<1>3. <<j, k>> \in hits
  BY <1>2
<1>4. hits # {} /\ hits \subseteq (1..Len(clauses)) \X (1..Len(s))
  BY <1>3
<1>5. \E h \in hits : \A g \in hits : Beats(h, g)
  BY <1>1, <1>4, BestExists
<1>6. best \in hits /\ \A g \in hits : Beats(best, g)
  BY <1>5 DEF Beats
<1>7. Longest(rule, s) = [clause |-> clauses[best[1]], lexeme |-> SubSeq(s, 1, best[2])]
  BY DEF Longest
<1> HIDE DEF best
<1>8. Taken(rule, s, best[1], best[2])
  <2>1. best[1] \in 1..Len(clauses) /\ best[2] \in 1..Len(s)
        /\ MatchesIn(rule, clauses[best[1]], SubSeq(s, 1, best[2]))
    BY <1>6
  <2>2. ASSUME NEW a \in 1..Len(clauses), NEW b \in 1..Len(s),
               MatchesIn(rule, clauses[a], SubSeq(s, 1, b))
        PROVE  best[2] > b \/ (best[2] = b /\ best[1] <= a)
    <3>1. <<a, b>> \in hits
      BY <2>2
    <3>2. Beats(best, <<a, b>>)
      BY <1>6, <3>1
    <3> QED BY <3>2 DEF Beats
  <2> HIDE DEF clauses
  <2>3. clauses = ClausesOf(rule)
    BY DEF clauses
  <2> QED BY <2>1, <2>2, <2>3 DEF Taken
<1> QED
  BY <1>7, <1>8

\* The characters of line breaks.
BreakChars == {"\n", "\r"}
BreakFree(s) == \A k \in 1..Len(s) : s[k] \notin BreakChars

\* A sequence of one character breaks no line when its character breaks none.
LEMMA ShortFree ==
    /\ \A c : c \notin BreakChars => BreakFree(<<c>>)
    /\ \A c, d : c \notin BreakChars /\ d \notin BreakChars => BreakFree(<<c, d>>)
    /\ \A c, d, e : c \notin BreakChars /\ d \notin BreakChars /\ e \notin BreakChars
                    => BreakFree(<<c, d, e>>)
<1>1. \A c : Len(<<c>>) = 1 /\ <<c>>[1] = c
  OBVIOUS
<1>2. \A c, d : Len(<<c, d>>) = 2 /\ <<c, d>>[1] = c /\ <<c, d>>[2] = d
  OBVIOUS
<1>3. \A c, d, e : Len(<<c, d, e>>) = 3 /\ <<c, d, e>>[1] = c /\ <<c, d, e>>[2] = d
                   /\ <<c, d, e>>[3] = e
  OBVIOUS
<1>4. \A k \in 1..3 : k = 1 \/ k = 2 \/ k = 3
  OBVIOUS
<1> QED
  BY <1>1, <1>2, <1>3, <1>4 DEF BreakFree

\* Sequences of characters none of which breaks a line.
LEMMA AllFree ==
    ASSUME NEW S, NEW s \in Seq(S), NEW C, All(s, C), C \cap BreakChars = {}
    PROVE  BreakFree(s)
  BY DEF All, ToSet, BreakFree

\* Neither does one whose first character and tail break none.
LEMMA TailFree ==
    ASSUME NEW S, NEW s \in Seq(S), s # << >>, s[1] \notin BreakChars, BreakFree(Tail(s))
    PROVE  BreakFree(s)
<1> SUFFICES ASSUME NEW k \in 1..Len(s)
             PROVE  s[k] \notin BreakChars
  BY DEF BreakFree
<1>1. CASE k = 1
  BY <1>1
<1>2. CASE k # 1
  <2>1. k - 1 \in 1..Len(Tail(s)) /\ Tail(s)[k - 1] = s[k]
    BY <1>2
  <2> QED BY <2>1 DEF BreakFree
<1> QED BY <1>1, <1>2

\* Neither does a literal with its suffix.
LEMMA SuffixedFree ==
    ASSUME NEW S, NEW s \in Seq(S), NEW X, NEW x \in Seq(X), IsSuffixed(s, x), BreakFree(x)
    PROVE  BreakFree(s)
<1> DEFINE d == Len(s) - Len(x)
<1>0. Len(s) > Len(x) /\ All(SubSeq(s, 1, d), Digit) /\ IsSuffix(x, s)
  BY DEF IsSuffixed
<1>1. Len(s) \in Nat /\ Len(x) \in Nat /\ d \in Nat /\ d <= Len(s) /\ d >= 1
  BY <1>0
<1>2. \A k \in 1..d : s[k] \in Digit
  <2>1. PICK y : y = SubSeq(s, 1, d)
    OBVIOUS
  <2>2. y \in Seq(S) /\ Len(y) = d /\ \A k \in 1..d : y[k] = s[k]
    BY <1>1, <2>1
  <2>3. \A k \in DOMAIN y : y[k] \in Digit
    BY <1>0, <2>1 DEF All, ToSet
  <2> QED BY <2>2, <2>3
<1>3. \A k \in 1..Len(x) : Reverse(x)[k] = x[Len(x) - k + 1] /\ Reverse(s)[k] = s[Len(s) - k + 1]
  BY <1>1 DEF Reverse
<1>4. \A k \in 1..Len(x) : Reverse(x)[k] = Reverse(s)[k]
  <2>1. Reverse(x) \in Seq(X) /\ Reverse(s) \in Seq(S) /\ Len(Reverse(x)) = Len(x)
        /\ Len(Reverse(s)) = Len(s)
    BY ReverseSeq
  <2>2. SubSeq(Reverse(x), 1, Len(x)) = SubSeq(Reverse(s), 1, Len(x))
    BY <1>0, <2>1 DEF IsSuffix, IsPrefix
  <2>3. \A k \in 1..Len(x) : SubSeq(Reverse(x), 1, Len(x))[k] = Reverse(x)[k]
                             /\ SubSeq(Reverse(s), 1, Len(x))[k] = Reverse(s)[k]
    BY <1>1, <2>1
  <2> QED BY <2>2, <2>3
<1>5. ASSUME NEW k \in 1..Len(s)
      PROVE  s[k] \notin BreakChars
  <2>1. CASE k \in 1..d
    BY <1>2, <2>1 DEF Digit, BreakChars
  <2>2. CASE k \notin 1..d
    <3>0. k \in Nat /\ 1 <= k /\ k <= Len(s) /\ ~(k <= d)
      BY <1>1, <2>2
    <3>a. Len(s) - k + 1 \in 1..Len(x)
      BY <1>1, <3>0
    <3>1. PICK j \in 1..Len(x) : j = Len(s) - k + 1
      BY <3>a
    <3>2. s[k] = x[Len(x) - j + 1]
      <4>1. k = Len(s) - j + 1
        BY <1>1, <3>1
      <4> QED BY <1>3, <1>4, <4>1
    <3>3. Len(x) - j + 1 \in 1..Len(x)
      BY <1>1
    <3> QED BY <3>2, <3>3 DEF BreakFree
  <2> QED BY <2>1, <2>2
<1> QED BY <1>5 DEF BreakFree

\* No clause of scan but the first and the last matches a line break.
LEMMA MatchesFree ==
    ASSUME NEW S, NEW s \in Seq(S),
           NEW clause \in {"space", "tabs", "ident", "constr", "bytes", "nat", "mtz",
                           "int", "symbol", "string", "block", "line", "minus", "negbytes"},
           Matches(clause, s)
    PROVE  BreakFree(s)
<1>a. ASSUME NEW x \in Seq(S), IsName(x, Small) \/ IsName(x, Capital)
      PROVE BreakFree(x)
  BY <1>a, AllFree DEF IsName, Small, Capital, Digit, BreakChars
<1>b. ASSUME NEW x \in Seq(S), IsNatural(x)
      PROVE BreakFree(x)
  BY <1>b, AllFree DEF IsNatural, Digit, BreakChars
<1>c. ASSUME NEW x \in Seq(S), IsBytes(x)
      PROVE BreakFree(x)
  <2>1. Len(x) \in Nat /\ Len(x) >= 2 /\ x[1] = "0" /\ x[2] = "x"
    BY <1>c DEF IsBytes
  <2>2. All(SubSeq(x, 3, Len(x)), Digit \union {"A", "C"})
    BY <1>c DEF IsBytes
  <2>3. PICK y : y = SubSeq(x, 3, Len(x))
    OBVIOUS
  <2>a. \A k \in DOMAIN y : y[k] \in Digit \union {"A", "C"}
    BY <2>2, <2>3 DEF All, ToSet
  <2>d. y \in Seq(S)
    BY <2>1, <2>3
  <2>e. Len(y) = IF 3 <= Len(x) THEN Len(x) - 3 + 1 ELSE 0
    BY <2>1, <2>3
  <2>b. Len(y) = Len(x) - 2 /\ DOMAIN y = 1..(Len(x) - 2)
    <3>1. Len(y) = Len(x) - 2
      <4>1. PICK n \in Nat : n = Len(x) /\ n >= 2
        BY <2>1
      <4>2. CASE n = 2
        <5>1. ~(3 <= Len(x)) /\ Len(x) - 2 = 0
          BY <4>1, <4>2
        <5> QED BY <5>1, <2>e, Zenon
      <4>3. CASE n # 2
        BY <4>1, <4>3, <2>e
      <4> QED BY <4>2, <4>3
    <3>2. DOMAIN y = 1..Len(y)
      BY <2>d
    <3> QED BY <3>1, <3>2
  <2>c. \A k \in 1..(Len(x) - 2) : y[k] = x[k + 2]
    BY <2>1, <2>3
  <2>4. \A k \in 1..(Len(x) - 2) : x[k + 2] \in Digit \union {"A", "C"}
    BY <2>a, <2>b, <2>c
  <2>5. ASSUME NEW k \in 1..Len(x)
        PROVE  x[k] \notin BreakChars
    <3>1. k = 1 \/ k = 2 \/ k - 2 \in 1..(Len(x) - 2)
      BY <2>1
    <3>2. k - 2 \in 1..(Len(x) - 2) => x[k] \in Digit \union {"A", "C"}
      BY <2>4
    <3> QED BY <2>1, <3>1, <3>2 DEF Digit, BreakChars
  <2> QED BY <2>5 DEF BreakFree
<1>d. ASSUME HasMinus(s), BreakFree(Tail(s))
      PROVE  BreakFree(s)
  BY <1>d, TailFree DEF HasMinus, BreakChars
<1>e. s # << >> => Tail(s) \in Seq(S)
  OBVIOUS
<1>1. CASE clause \in {"space", "tabs"}
  BY <1>1, AllFree DEF Matches, BreakChars
<1>2. CASE clause \in {"ident", "constr"}
  BY <1>2, <1>a DEF Matches
<1>3. CASE clause = "bytes"
  BY <1>3, <1>c DEF Matches
<1>4. CASE clause = "nat"
  <2>1. <<"n">> \in Seq({"n"}) /\ BreakFree(<<"n">>)
    BY ShortFree DEF BreakChars
  <2> QED BY <1>4, <2>1, SuffixedFree DEF Matches
<1>5. CASE clause = "mtz"
  <2>1. <<"m", "t", "z">> \in Seq({"m", "t", "z"}) /\ BreakFree(<<"m", "t", "z">>)
    BY ShortFree DEF BreakChars
  <2> QED BY <1>5, <2>1, SuffixedFree DEF Matches
<1>6. CASE clause = "int"
  <2>1. IsNatural(s) \/ (HasMinus(s) /\ IsNatural(Tail(s)))
    BY <1>6 DEF Matches
  <2> QED BY <2>1, <1>b, <1>d, <1>e DEF HasMinus
<1>7. CASE clause = "symbol"
  <2>1. s \in Symbols
    BY <1>7 DEF Matches
  <2>2. \/ \E c : s = <<c>> /\ c \notin BreakChars
        \/ \E c, d : s = <<c, d>> /\ c \notin BreakChars /\ d \notin BreakChars
        \/ s = <<"=", "/", "=">>
    <3> DEFINE single == {";", ",", "(", ")", "[", "]", "{", "}", "#", "|", "=", ":",
                          "<", ">", "+", "-", "*", "/", ".", "_", "^"}
    <3>1. \/ s \in {<<c>> : c \in single}
          \/ s = <<"-", ">">> \/ s = <<":", "=">> \/ s = <<"<", "=">>
          \/ s = <<">", "=">> \/ s = <<"=", "/", "=">>
      BY <2>1, Zenon DEF Symbols
    <3>2. \A c \in single : c \notin BreakChars
      BY DEF BreakChars
    <3>3. "-" \in single /\ ">" \in single /\ ":" \in single /\ "=" \in single
          /\ "<" \in single
      OBVIOUS
    <3> HIDE DEF single
    <3> QED BY <3>1, <3>2, <3>3, Zenon
  <2> QED BY <2>2, ShortFree DEF BreakChars
<1>8. CASE clause \in {"string", "block", "line", "minus"}
  <2>1. \/ \E c : s = <<c>> /\ c \notin BreakChars
        \/ \E c, d : s = <<c, d>> /\ c \notin BreakChars /\ d \notin BreakChars
    <3>1. s = <<"\"">> \/ s = <<"-">> \/ s = <<"(", "*">> \/ s = <<"/", "/">>
      BY <1>8 DEF Matches
    <3>2. "\"" \notin BreakChars /\ "-" \notin BreakChars /\ "(" \notin BreakChars
          /\ "*" \notin BreakChars /\ "/" \notin BreakChars
      BY DEF BreakChars
    <3> QED BY <3>1, <3>2, Zenon
  <2> QED BY <2>1, ShortFree
<1>9. CASE clause = "negbytes"
  <2>1. HasMinus(s) /\ IsBytes(Tail(s))
    BY <1>9 DEF Matches
  <2> QED BY <2>1, <1>c, <1>d, <1>e DEF HasMinus
<1> QED
  BY <1>1, <1>2, <1>3, <1>4, <1>5, <1>6, <1>7, <1>8, <1>9

-----------------------------------------------------------------------------
(* Positions of a text t.                                                  *)

EndsIn(t, n) ==
    {k \in 1..n : \/ t[k] = "\n"
                  \/ /\ t[k] = "\r"
                     /\ ~(k < Len(t) /\ t[k + 1] = "\n")}
PosIn(t, n) ==
    [cnum |-> n, lnum |-> 1 + Cardinality(EndsIn(t, n)), bol |-> Max(EndsIn(t, n) \union {0})]

\* What stands between two places of a text.
Part(t, a, b) == SubSeq(t, a + 1, b)

\* The characters of a part.
LEMMA PartIs ==
    ASSUME NEW S, NEW t \in Seq(S), NEW a \in Nat, NEW b \in Nat, a <= b, b <= Len(t)
    PROVE  /\ Part(t, a, b) \in Seq(S) /\ Len(Part(t, a, b)) = b - a
           /\ \A k \in 1..(b - a) : Part(t, a, b)[k] = t[a + k]
<1>1. PICK p : p = Part(t, a, b)
  OBVIOUS
<1>2. p = SubSeq(t, a + 1, b)
  BY <1>1 DEF Part
<1>3. p \in Seq(S) /\ Len(t) \in Nat
  BY <1>2
<1>4. Len(p) = IF a + 1 <= b THEN b - (a + 1) + 1 ELSE 0
  BY <1>2
<1>5. Len(p) = b - a
  <2>1. CASE a = b
    <3>1. ~(a + 1 <= b) /\ b - a = 0
      BY <2>1
    <3> QED BY <3>1, <1>4, Zenon
  <2>2. CASE a # b
    BY <2>2, <1>4
  <2> QED BY <2>1, <2>2
<1>6. \A k \in 1..(b - a) : p[k] = t[a + k]
  <2> TAKE k \in 1..(b - a)
  <2>1. p[k] = t[a + 1 + k - 1]
    BY <1>2, <1>3
  <2> QED BY <2>1
<1> QED BY <1>1, <1>3, <1>5, <1>6

\* Sequences with the same characters are equal.
LEMMA SameSeq ==
    ASSUME NEW S, NEW p \in Seq(S), NEW T, NEW q \in Seq(T), Len(p) = Len(q),
           \A k \in 1..Len(p) : p[k] = q[k]
    PROVE  p = q
  OBVIOUS

\* Neighbouring parts make up a part.
LEMMA PartsJoin ==
    ASSUME NEW S, NEW t \in Seq(S), NEW a \in Nat, NEW b \in Nat, NEW c \in Nat,
           a <= b, b <= c, c <= Len(t)
    PROVE  Part(t, a, b) \o Part(t, b, c) = Part(t, a, c)
<1>0. b <= Len(t) /\ a <= c
  OBVIOUS
<1>1. PICK p : p = Part(t, a, b)
  OBVIOUS
<1>2. PICK q : q = Part(t, b, c)
  OBVIOUS
<1>3. PICK r : r = Part(t, a, c)
  OBVIOUS
<1>4. p \in Seq(S) /\ Len(p) = b - a /\ \A k \in 1..(b - a) : p[k] = t[a + k]
  BY <1>0, <1>1, PartIs
<1>5. q \in Seq(S) /\ Len(q) = c - b /\ \A k \in 1..(c - b) : q[k] = t[b + k]
  BY <1>0, <1>2, PartIs
<1>6. r \in Seq(S) /\ Len(r) = c - a /\ \A k \in 1..(c - a) : r[k] = t[a + k]
  BY <1>0, <1>3, PartIs
<1>7. p \o q \in Seq(S) /\ Len(p \o q) = c - a
  BY <1>4, <1>5
<1>8. ASSUME NEW k \in 1..(c - a)
      PROVE  (p \o q)[k] = r[k]
  <2>1. CASE k <= b - a
    <3>1. k \in 1..(b - a) /\ k \in 1..(c - a)
      BY <2>1
    <3>2. (p \o q)[k] = p[k]
      BY <1>4, <1>5, <3>1
    <3>3. p[k] = t[a + k] /\ r[k] = t[a + k]
      BY <1>4, <1>6, <3>1
    <3> QED BY <3>2, <3>3
  <2>2. CASE k > b - a
    <3>1. PICK j \in 1..(c - b) : k = (b - a) + j
      <4>1. k - (b - a) \in 1..(c - b)
        BY <2>2
      <4> QED BY <4>1
    <3>2. (p \o q)[k] = q[j]
      <4>1. k \in (Len(p) + 1)..(Len(p) + Len(q)) /\ k - Len(p) = j
        BY <1>4, <1>5, <3>1
      <4>2. p \in Seq(S) /\ q \in Seq(S)
        BY <1>4, <1>5
      <4>3. (p \o q)[k] = q[k - Len(p)]
        BY <4>1, <4>2
      <4> QED BY <4>1, <4>3
    <3>3. a + k = b + j
      BY <3>1
    <3>4. q[j] = t[b + j] /\ r[k] = t[a + k]
      BY <1>5, <1>6
    <3> QED BY <3>2, <3>3, <3>4
  <2>3. k <= b - a \/ k > b - a
    OBVIOUS
  <2> QED BY <2>1, <2>2, <2>3
<1>9. \A k \in 1..Len(p \o q) : (p \o q)[k] = r[k]
  BY <1>7, <1>8
<1>10. p \o q = r
  BY <1>6, <1>7, <1>9, SameSeq
<1> QED BY <1>1, <1>2, <1>3, <1>10

\* The beginning of what is left of a text.
LEMMA RestPart ==
    ASSUME NEW S, NEW t \in Seq(S), NEW a \in Nat, a <= Len(t)
    PROVE  /\ SubSeq(t, a + 1, Len(t)) \in Seq(S)
           /\ Len(SubSeq(t, a + 1, Len(t))) = Len(t) - a
           /\ \A n \in 1..(Len(t) - a) :
                /\ SubSeq(SubSeq(t, a + 1, Len(t)), 1, n) = Part(t, a, a + n)
                /\ SubSeq(t, a + 1, Len(t))[n] = t[a + n]
<1>1. PICK r : r = SubSeq(t, a + 1, Len(t))
  OBVIOUS
<1>2. PICK l \in Nat : l = Len(t)
  OBVIOUS
<1>3. r = Part(t, a, l)
  BY <1>1, <1>2 DEF Part
<1>4. r \in Seq(S) /\ Len(r) = l - a /\ \A k \in 1..(l - a) : r[k] = t[a + k]
  <2>1. l \in Nat /\ a <= l /\ l <= Len(t)
    BY <1>2
  <2> QED BY <1>3, <2>1, PartIs
<1>5. ASSUME NEW n \in 1..(l - a)
      PROVE  SubSeq(r, 1, n) = Part(t, a, a + n)
  <2>1. PICK p : p = SubSeq(r, 1, n)
    OBVIOUS
  <2>2. PICK q : q = Part(t, a, a + n)
    OBVIOUS
  <2>0. n \in Nat /\ n <= Len(r) /\ n >= 1
    BY <1>2, <1>4
  <2>3. p \in Seq(S) /\ Len(p) = n /\ \A k \in 1..n : p[k] = r[k]
    <3>1. p \in Seq(S) /\ Len(p) = n
      BY <1>4, <2>0, <2>1
    <3>2. \A k \in 1..n : p[k] = r[1 + k - 1]
      BY <1>4, <2>0, <2>1
    <3>3. \A k \in 1..n : 1 + k - 1 = k
      OBVIOUS
    <3> QED BY <3>1, <3>2, <3>3
  <2>4. a + n \in Nat /\ a <= a + n /\ a + n <= l /\ a + n - a = n
    BY <1>2
  <2>5. q \in Seq(S) /\ Len(q) = n /\ \A k \in 1..n : q[k] = t[a + k]
    <3>1. PICK b \in Nat : b = a + n
      BY <2>4
    <3>2. a <= b /\ b <= Len(t) /\ b - a = n
      BY <1>2, <2>4, <3>1
    <3>3. q \in Seq(S) /\ Len(q) = b - a /\ \A k \in 1..(b - a) : q[k] = t[a + k]
      <4>1. q = Part(t, a, b)
        BY <2>2, <3>1
      <4> QED BY <4>1, <3>1, <3>2, PartIs, ZenonT(30)
    <3> QED BY <3>2, <3>3
  <2>6. \A k \in 1..Len(p) : p[k] = q[k]
    <3>1. \A k \in 1..n : k \in 1..(l - a)
      <4>1. n \in Nat /\ l - a \in Int /\ n <= l - a
        BY <1>2
      <4> QED BY <4>1
    <3> QED BY <1>4, <2>3, <2>5, <3>1
  <2>7. p = q
    BY <2>3, <2>5, <2>6, SameSeq
  <2> QED BY <2>1, <2>2, <2>7
<1> QED BY <1>1, <1>2, <1>4, <1>5

\* Line ends up to two places.
LEMMA MaxOf ==
    ASSUME NEW n \in Nat, NEW T, n \in T, \A k \in T : k \in Nat /\ k <= n
    PROVE  Max(T) = n
<1>1. \A y \in T : n >= y
  OBVIOUS
<1>2. \A x \in T : (\A y \in T : x >= y) => x = n
  OBVIOUS
<1> QED BY <1>1, <1>2 DEF Max

\* The line ends up to a place are finitely many places before it.
LEMMA EndsFinite ==
    ASSUME NEW t, NEW n \in Nat
    PROVE  IsFiniteSet(EndsIn(t, n)) /\ Cardinality(EndsIn(t, n)) \in Nat
<1>1. EndsIn(t, n) \subseteq 1..n
  BY DEF EndsIn
<1>2. IsFiniteSet(1..n)
  BY FS_Interval
<1> QED BY <1>1, <1>2, FS_Subset, FS_CardinalityType

\* Characters that break no line only move the position.
LEMMA PosShifts ==
    ASSUME NEW t, NEW a \in Nat, NEW n \in Nat,
           \A k \in 1..n : t[a + k] \notin BreakChars
    PROVE  PosIn(t, a + n) = ShiftBytes(PosIn(t, a), n)
<1>1. EndsIn(t, a + n) = EndsIn(t, a)
  <2>1. ASSUME NEW k \in 1..(a + n), k \notin 1..a
        PROVE  t[k] \notin BreakChars
    <3>1. k - a \in 1..n /\ a + (k - a) = k
      BY <2>1
    <3> QED BY <3>1
  <2>2. 1..a \subseteq 1..(a + n)
    OBVIOUS
  <2> QED BY <2>1, <2>2 DEF EndsIn, BreakChars
<1> QED BY <1>1 DEF PosIn, ShiftBytes, Pos

\* The n characters after a are a whole line break.
IsBreak(t, a, n) ==
    \/ n = 1 /\ t[a + 1] = "\n"
    \/ n = 1 /\ t[a + 1] = "\r" /\ ~(a + 1 < Len(t) /\ t[a + 2] = "\n")
    \/ n = 2 /\ t[a + 1] = "\r" /\ t[a + 2] = "\n" /\ a + 1 < Len(t)

\* A line break moves the position to the beginning of the next line.
LEMMA PosBreaks ==
    ASSUME NEW t, NEW a \in Nat, NEW n \in Nat, IsBreak(t, a, n)
    PROVE  PosIn(t, a + n) = AddNl(ShiftBytes(PosIn(t, a), n))
<1>1. n \in 1..2 /\ a + n \in Nat
  BY DEF IsBreak
<1>2. EndsIn(t, a + n) = EndsIn(t, a) \union {a + n} /\ a + n \notin EndsIn(t, a)
  <2>1. CASE n = 1
    <3>1. a + 1 \in EndsIn(t, a + 1)
      BY <2>1 DEF IsBreak, EndsIn
    <3>2. 1..(a + 1) = (1..a) \union {a + 1} /\ a + 1 \notin 1..a
      OBVIOUS
    <3>3. EndsIn(t, a + 1) \subseteq EndsIn(t, a) \union {a + 1}
      BY <3>2 DEF EndsIn
    <3>4. EndsIn(t, a) \subseteq EndsIn(t, a + 1)
      BY <3>2 DEF EndsIn
    <3>5. a + 1 \notin EndsIn(t, a)
      BY <3>2 DEF EndsIn
    <3> QED BY <2>1, <3>1, <3>3, <3>4, <3>5
  <2>2. CASE n = 2
    <3>0. t[a + 1] = "\r" /\ t[a + 2] = "\n" /\ a + 1 < Len(t)
      BY <2>2 DEF IsBreak
    <3>1. a + 2 \in EndsIn(t, a + 2)
      BY <3>0 DEF EndsIn
    <3>2. 1..(a + 2) = (1..a) \union {a + 1, a + 2} /\ a + 1 \notin 1..a /\ a + 2 \notin 1..a
          /\ (a + 1) + 1 = a + 2
      OBVIOUS
    <3>3. a + 1 \notin EndsIn(t, a + 2)
      <4>1. t[a + 1] # "\n" /\ t[(a + 1) + 1] = "\n"
        BY <3>0, <3>2
      <4> QED BY <4>1, <3>0 DEF EndsIn
    <3>4. EndsIn(t, a + 2) \subseteq EndsIn(t, a) \union {a + 2}
      BY <3>2, <3>3 DEF EndsIn
    <3>5. EndsIn(t, a) \subseteq EndsIn(t, a + 2)
      BY <3>2 DEF EndsIn
    <3>6. a + 2 \notin EndsIn(t, a)
      BY <3>2 DEF EndsIn
    <3> QED BY <2>2, <3>1, <3>4, <3>5, <3>6
  <2> QED BY <1>1, <2>1, <2>2
<1>3. Cardinality(EndsIn(t, a + n)) = Cardinality(EndsIn(t, a)) + 1
  BY <1>2, EndsFinite, FS_AddElement
<1>4. Max(EndsIn(t, a + n) \union {0}) = a + n
  <2>1. a + n \in EndsIn(t, a + n) \union {0}
    BY <1>2
  <2>2. \A k \in EndsIn(t, a + n) \union {0} : k \in Nat /\ k <= a + n
    BY <1>1 DEF EndsIn
  <2> QED BY <1>1, <2>1, <2>2, MaxOf
<1>5. 1 + Cardinality(EndsIn(t, a + n)) = (1 + Cardinality(EndsIn(t, a))) + 1
  <2>1. Cardinality(EndsIn(t, a)) \in Nat
    BY EndsFinite
  <2> QED BY <1>3, <2>1
<1> QED BY <1>4, <1>5 DEF PosIn, AddNl, ShiftBytes, Pos

-----------------------------------------------------------------------------
(* What a match is in the text.                                            *)

\* An escape in a string breaks no line.
LEMMA EscapeFree ==
    ASSUME NEW S, NEW s \in Seq(S), IsEscape(s)
    PROVE  BreakFree(s)
<1>1. CASE s \in {<<"\\", c>> : c \in {"n", "\"", "\\", "b", "r", "t"}}
  <2>1. PICK c \in {"n", "\"", "\\", "b", "r", "t"} : s = <<"\\", c>>
    BY <1>1
  <2>2. "\\" \notin BreakChars
    BY DEF BreakChars
  <2>3. c \notin BreakChars
    BY DEF BreakChars
  <2> QED BY <2>1, <2>2, <2>3, ShortFree, Zenon
<1>2. CASE /\ Len(s) = 4 /\ s[1] = "\\" /\ s[2] = "x"
           /\ All(SubSeq(s, 3, 4), Digit \union {"A", "C"})
  <2>1. PICK y : y = SubSeq(s, 3, 4)
    OBVIOUS
  <2>2. Len(s) = 4 /\ s[1] \notin BreakChars /\ s[2] \notin BreakChars
    BY <1>2 DEF BreakChars
  <2>3. y \in Seq(S) /\ Len(y) = 2 /\ y[1] = s[3] /\ y[2] = s[4]
    BY <2>1, <2>2
  <2>4. DOMAIN y = 1..2 /\ 1 \in 1..2 /\ 2 \in 1..2
    BY <2>3
  <2>5. \A k \in 1..2 : y[k] \in Digit \union {"A", "C"}
    BY <1>2, <2>1, <2>4 DEF All, ToSet
  <2>6. \A c \in Digit \union {"A", "C"} : c \notin BreakChars
    BY DEF Digit, BreakChars
  <2>7. s[3] \notin BreakChars /\ s[4] \notin BreakChars
    BY <2>3, <2>4, <2>5, <2>6
  <2>8. \A k \in 1..4 : k = 1 \/ k = 2 \/ k = 3 \/ k = 4
    OBVIOUS
  <2> QED BY <2>2, <2>7, <2>8 DEF BreakFree
<1> QED
  BY <1>1, <1>2 DEF IsEscape

\* Every rule has the clauses for line breaks and for any other character, in
\* this order.
LEMMA CommonClauses ==
    ASSUME NEW rule \in MatchRules, NEW s
    PROVE  /\ MatchesIn(rule, "newline", s) <=> s \in Newline
           /\ MatchesIn(rule, "other", s) <=> Len(s) = 1
<1>1. (Matches("newline", s) <=> s \in Newline) /\ (Matches("other", s) <=> Len(s) = 1)
  BY DEF Matches
<1> QED
  BY <1>1 DEF MatchesIn, MatchesInString, MatchesInBlock, MatchRules

\* A line break is matched as such and not by the catch-all, which comes later.
LEMMA NewlineBeforeOther ==
    ASSUME NEW rule \in MatchRules, NEW i \in 1..Len(ClausesOf(rule)),
           ClausesOf(rule)[i] = "other"
    PROVE  \E j \in 1..Len(ClausesOf(rule)) : j < i /\ ClausesOf(rule)[j] = "newline"
<1>1. CASE rule = "scan"
  <2>1. Len(ClausesOf(rule)) = 16 /\ ClausesOf(rule)[1] = "newline"
    BY <1>1 DEF ClausesOf, Clauses
  <2>2. 1 \in 1..16 /\ i \in 1..16 /\ (i = 1 \/ 1 < i)
    BY <2>1
  <2> QED BY <2>1, <2>2
<1>2. CASE rule = "string"
  <2>1. Len(ClausesOf(rule)) = 6 /\ ClausesOf(rule)[1] = "newline"
    BY <1>2 DEF ClausesOf, StringClauses
  <2>2. 1 \in 1..6 /\ i \in 1..6 /\ (i = 1 \/ 1 < i)
    BY <2>1
  <2> QED BY <2>1, <2>2
<1>3. CASE rule = "block"
  <2>1. /\ Len(ClausesOf(rule)) = 5
        /\ ClausesOf(rule)[1] = "string" /\ ClausesOf(rule)[2] = "block"
        /\ ClausesOf(rule)[3] = "close" /\ ClausesOf(rule)[4] = "newline"
    BY <1>3 DEF ClausesOf, BlockClauses
  <2>2. 4 \in 1..5 /\ (i = 1 \/ i = 2 \/ i = 3 \/ i = 4 \/ 4 < i)
    BY <2>1
  <2> QED BY <2>1, <2>2
<1>4. CASE rule = "line"
  <2>1. Len(ClausesOf(rule)) = 2 /\ ClausesOf(rule)[1] = "newline"
    BY <1>4 DEF ClausesOf, LineClauses
  <2>2. 1 \in 1..2 /\ i \in 1..2 /\ (i = 1 \/ 1 < i)
    BY <2>1
  <2> QED BY <2>1, <2>2
<1> QED
  BY <1>1, <1>2, <1>3, <1>4 DEF MatchRules

ScanMiddle == {"space", "tabs", "ident", "constr", "bytes", "nat", "mtz", "int", "symbol",
               "string", "block", "line", "minus", "negbytes"}

\* The clauses of each rule.
LEMMA ClauseNames ==
    ASSUME NEW rule \in MatchRules, NEW i \in 1..Len(ClausesOf(rule))
    PROVE  /\ rule = "scan" => ClausesOf(rule)[i] \in {"newline", "other"} \union ScanMiddle
           /\ rule = "string" => ClausesOf(rule)[i] \in
                {"newline", "invalid", "string", "escape", "badescape", "other"}
           /\ rule = "block" => ClausesOf(rule)[i] \in
                {"string", "block", "close", "newline", "other"}
           /\ rule = "line" => ClausesOf(rule)[i] \in {"newline", "other"}
<1>1. CASE rule = "scan"
  <2>1. ClausesOf(rule) = Clauses
    BY <1>1 DEF ClausesOf
  <2>2. Clauses \in Seq({"newline", "other"} \union ScanMiddle)
    BY DEF Clauses, ScanMiddle
  <2> QED BY <1>1, <2>1, <2>2
<1>2. CASE rule = "string"
  <2>1. ClausesOf(rule) = StringClauses
    BY <1>2 DEF ClausesOf
  <2>2. StringClauses \in Seq({"newline", "invalid", "string", "escape", "badescape", "other"})
    BY DEF StringClauses
  <2> QED BY <1>2, <2>1, <2>2
<1>3. CASE rule = "block"
  <2>1. ClausesOf(rule) = BlockClauses
    BY <1>3 DEF ClausesOf
  <2>2. BlockClauses \in Seq({"string", "block", "close", "newline", "other"})
    BY DEF BlockClauses
  <2> QED BY <1>3, <2>1, <2>2
<1>4. CASE rule = "line"
  <2>1. ClausesOf(rule) = LineClauses
    BY <1>4 DEF ClausesOf
  <2>2. LineClauses \in Seq({"newline", "other"})
    BY DEF LineClauses
  <2> QED BY <1>4, <2>1, <2>2
<1> QED
  BY <1>1, <1>2, <1>3, <1>4 DEF MatchRules

\* A clause that is for something else than line breaks matches none.
LEMMA ClauseFree ==
    ASSUME NEW S, NEW s \in Seq(S), NEW rule \in MatchRules,
           NEW i \in 1..Len(ClausesOf(rule)),
           ClausesOf(rule)[i] \notin {"newline", "invalid", "badescape", "other"},
           MatchesIn(rule, ClausesOf(rule)[i], s)
    PROVE  BreakFree(s)
<1> DEFINE c == ClausesOf(rule)[i]
<1>1. CASE c \in ScanMiddle
  <2>1. Matches(c, s)
    <3>1. c # "invalid" /\ c # "escape" /\ c # "badescape" /\ c # "close"
      BY <1>1 DEF ScanMiddle
    <3> HIDE DEF c
    <3>2. MatchesIn(rule, c, s)
      BY DEF c
    <3> QED BY <3>1, <3>2 DEF MatchesIn, MatchesInString, MatchesInBlock
  <2> HIDE DEF c
  <2> QED BY <1>1, <2>1, MatchesFree DEF ScanMiddle
<1>2. CASE rule = "string" /\ c = "escape"
  <2>1. IsEscape(s)
    BY <1>2 DEF MatchesIn, MatchesInString
  <2> QED BY <2>1, EscapeFree
<1>3. CASE rule = "block" /\ c = "close"
  <2>1. s = <<"*", ")">>
    BY <1>3 DEF MatchesIn, MatchesInBlock
  <2> QED BY <2>1, ShortFree DEF BreakChars
<1>4. c \in ScanMiddle \/ (rule = "string" /\ c = "escape") \/ (rule = "block" /\ c = "close")
  BY ClauseNames DEF ScanMiddle, MatchRules
<1> QED
  BY <1>1, <1>2, <1>3, <1>4

\* The match m of a rule in the text t at a: its characters are the next n ones,
\* and the position after it is found with Lexing.new_line if it is a line break,
\* without otherwise.
Lexed(t, a, m, n) ==
    /\ n \in 1..(Len(t) - a)
    /\ m.lexeme = Part(t, a, a + n)
    /\ Len(m.lexeme) = n
    /\ m.clause = "newline" => IsBreak(t, a, n)
    /\ m.clause \notin {"newline", "invalid", "badescape"} =>
         \A k \in 1..n : t[a + k] \notin BreakChars

\* The clause that ocamllex takes gives such a match.
LEMMA TakenText ==
    ASSUME NEW S, NEW t \in Seq(S), NEW a \in Nat, a < Len(t), NEW rule \in MatchRules,
           NEW s, s = SubSeq(t, a + 1, Len(t)), NEW i, NEW n, Taken(rule, s, i, n)
    PROVE  Lexed(t, a, [clause |-> ClausesOf(rule)[i], lexeme |-> SubSeq(s, 1, n)], n)
<1>1. PICK l \in Nat : l = Len(t)
  OBVIOUS
<1>2. /\ s \in Seq(S) /\ Len(s) = l - a
      /\ \A k \in 1..(l - a) : SubSeq(s, 1, k) = Part(t, a, a + k) /\ s[k] = t[a + k]
  <2>1. a <= Len(t)
    BY <1>1
  <2> QED BY <1>1, <2>1, RestPart, Zenon
<1>3. n \in 1..(l - a) /\ i \in 1..Len(ClausesOf(rule))
  BY <1>2 DEF Taken
<1>4. PICK p : p = SubSeq(s, 1, n)
  OBVIOUS
<1>5. p \in Seq(S) /\ Len(p) = n /\ p = Part(t, a, a + n) /\ \A k \in 1..n : p[k] = t[a + k]
  <2>1. PICK b \in Nat : b = a + n
    BY <1>3
  <2>2. a <= b /\ b <= Len(t) /\ b - a = n
    BY <1>1, <1>3, <2>1
  <2>3. p = Part(t, a, b)
    BY <1>2, <1>3, <1>4, <2>1
  <2>4. p \in Seq(S) /\ Len(p) = b - a /\ \A k \in 1..(b - a) : p[k] = t[a + k]
    BY <2>2, <2>3, PartIs
  <2> QED BY <2>1, <2>2, <2>3, <2>4
<1>6. MatchesIn(rule, ClausesOf(rule)[i], p)
  BY <1>4 DEF Taken
<1>7. \A j \in 1..Len(ClausesOf(rule)), k \in 1..(l - a) :
         MatchesIn(rule, ClausesOf(rule)[j], Part(t, a, a + k)) => n > k \/ (n = k /\ i <= j)
  BY <1>2 DEF Taken
<1>8. ASSUME ClausesOf(rule)[i] = "newline"
      PROVE  IsBreak(t, a, n)
  <2>1. p \in Newline
    BY <1>6, <1>8, CommonClauses
  <2>2. CASE p = <<"\n">>
    <3>1. n = 1 /\ p[1] = "\n" /\ 1 \in 1..n
      BY <1>5, <2>2
    <3> QED BY <1>5, <3>1 DEF IsBreak
  <2>3. CASE p = <<"\r">>
    <3>1. n = 1 /\ p[1] = "\r" /\ 1 \in 1..n
      BY <1>5, <2>3
    <3>2. t[a + 1] = "\r"
      BY <1>5, <3>1
    <3>3. ASSUME a + 1 < l, t[a + 2] = "\n"
          PROVE  FALSE
      <4>1. 2 \in 1..(l - a) /\ 1 \in 1..(l - a)
        BY <1>1, <3>3
      <4>2. PICK q : q = Part(t, a, a + 2)
        OBVIOUS
      <4>3. q \in Seq(S) /\ Len(q) = 2 /\ q[1] = t[a + 1] /\ q[2] = t[a + 2]
        <5>1. PICK b \in Nat : b = a + 2
          OBVIOUS
        <5>2. a <= b /\ b <= Len(t) /\ b - a = 2
          BY <1>1, <4>1, <5>1
        <5>3. q = Part(t, a, b)
          BY <4>2, <5>1
        <5>4. q \in Seq(S) /\ Len(q) = b - a /\ \A k \in 1..(b - a) : q[k] = t[a + k]
          BY <5>2, <5>3, PartIs
        <5>5. \A k \in 1..2 : q[k] = t[a + k]
          BY <5>2, <5>4
        <5> QED BY <5>2, <5>4, <5>5
      <4>4. q = <<"\r", "\n">>
        BY <3>2, <3>3, <4>3
      <4>5. MatchesIn(rule, ClausesOf(rule)[i], q)
        BY <1>8, <4>4, CommonClauses DEF Newline
      <4>6. n > 2 \/ n = 2
        BY <1>3, <1>7, <4>1, <4>2, <4>5
      <4> QED BY <3>1, <4>6
    <3> QED BY <1>1, <3>1, <3>2, <3>3 DEF IsBreak
  <2>4. CASE p = <<"\r", "\n">>
    <3>a. Len(p) = 2 /\ p[1] = "\r" /\ p[2] = "\n"
      <4>1. \A c, d : Len(<<c, d>>) = 2 /\ <<c, d>>[1] = c /\ <<c, d>>[2] = d
        OBVIOUS
      <4> QED BY <2>4, <4>1, Zenon
    <3>1. n = 2 /\ p[1] = "\r" /\ p[2] = "\n" /\ 1 \in 1..n /\ 2 \in 1..n
      BY <1>5, <3>a
    <3>2. t[a + 1] = "\r" /\ t[a + 2] = "\n" /\ a + 1 < l
      BY <1>1, <1>3, <1>5, <3>1
    <3> QED BY <1>1, <3>1, <3>2 DEF IsBreak
  <2> QED BY <2>1, <2>2, <2>3, <2>4 DEF Newline
<1>9. ASSUME ClausesOf(rule)[i] \notin {"newline", "invalid", "badescape"}
      PROVE  \A k \in 1..n : t[a + k] \notin BreakChars
  <2>1. BreakFree(p)
    <3>1. CASE ClausesOf(rule)[i] # "other"
      BY <1>3, <1>5, <1>6, <1>9, <3>1, ClauseFree
    <3>2. CASE ClausesOf(rule)[i] = "other"
      <4>1. Len(p) = 1 /\ n = 1
        BY <1>5, <1>6, <3>2, CommonClauses
      <4>2. ASSUME p[1] \in BreakChars
            PROVE  FALSE
        <5>1. p = <<p[1]>>
          BY <1>5, <4>1
        <5>2. p = <<"\n">> \/ p = <<"\r">>
          BY <4>2, <5>1 DEF BreakChars
        <5>3. p \in Newline
          BY <5>2 DEF Newline
        <5>4. PICK j \in 1..Len(ClausesOf(rule)) : j < i /\ ClausesOf(rule)[j] = "newline"
          BY <1>3, <3>2, NewlineBeforeOther
        <5>5. MatchesIn(rule, ClausesOf(rule)[j], Part(t, a, a + n))
          BY <1>5, <5>3, <5>4, CommonClauses
        <5>6. n > n \/ i <= j
          BY <1>3, <1>7, <5>5
        <5>7. Len(ClausesOf(rule)) \in Nat
          <6>1. s # << >>
            <7>1. Len(s) # 0 /\ Len(<< >>) = 0
              BY <1>1, <1>2
            <7> QED BY <7>1
          <6> QED BY <1>2, <6>1, CatchAll
        <5> QED BY <1>3, <5>4, <5>6, <5>7
      <4>3. \A k \in 1..1 : k = 1
        OBVIOUS
      <4> QED BY <4>1, <4>2, <4>3 DEF BreakFree
    <3> QED BY <3>1, <3>2
  <2> QED BY <1>5, <2>1 DEF BreakFree
<1> QED
  BY <1>1, <1>3, <1>4, <1>5, <1>8, <1>9 DEF Lexed

\* The lexing engine finds a match.
LEMMA FoundMatch ==
    ASSUME NEW S, text \in Seq(S), at \in 0..Len(text), ~AtEof, pc \in MatchRules
    PROVE  \E i \in 1..Len(ClausesOf(pc)) : \E n :
              /\ Found.clause = ClausesOf(pc)[i]
              /\ Lexed(text, at, Found, n)
              /\ MatchesIn(pc, Found.clause, Found.lexeme)
<1>1. PICK t \in Seq(S) : t = text
  OBVIOUS
<1>2. PICK a \in Nat : a = at /\ a < Len(t)
  BY <1>1 DEF AtEof
<1>3. PICK r \in MatchRules : r = pc
  OBVIOUS
<1>4. PICK s : s = SubSeq(t, a + 1, Len(t))
  OBVIOUS
<1>5. s \in Seq(S) /\ s # << >>
  <2>1. a <= Len(t)
    BY <1>2
  <2>2. s \in Seq(S) /\ Len(s) = Len(t) - a
    BY <1>4, <2>1, RestPart, Zenon
  <2>3. Len(s) # 0 /\ Len(<< >>) = 0
    BY <1>2, <2>2
  <2> QED BY <2>2, <2>3
<1>6. PICK i, n : /\ Taken(r, s, i, n)
                  /\ Longest(r, s) = [clause |-> ClausesOf(r)[i], lexeme |-> SubSeq(s, 1, n)]
  BY <1>3, <1>5, LongestMatch
<1>7. Lexed(t, a, [clause |-> ClausesOf(r)[i], lexeme |-> SubSeq(s, 1, n)], n)
  <2>1. a < Len(t) /\ s = SubSeq(t, a + 1, Len(t)) /\ Taken(r, s, i, n)
    BY <1>2, <1>4, <1>6
  <2> QED BY <1>1, <1>2, <1>3, <2>1, TakenText
<1>9. Found = [clause |-> ClausesOf(r)[i], lexeme |-> SubSeq(s, 1, n)]
  BY <1>1, <1>2, <1>3, <1>4, <1>6 DEF Found, Rest
<1>10. i \in 1..Len(ClausesOf(r)) /\ MatchesIn(r, ClausesOf(r)[i], SubSeq(s, 1, n))
  BY <1>6 DEF Taken
<1>11. Lexed(t, a, Found, n)
  BY <1>7, <1>9
<1> QED
  BY <1>1, <1>2, <1>3, <1>9, <1>10, <1>11

-----------------------------------------------------------------------------
(* The openings of the constructs that are not closed, innermost first.    *)

Outer(F) == F[Len(F)].start.cnum

\* Each is where it says, and after the one around it.
Chain(t, F) ==
    /\ \E S : F \in Seq(S)
    /\ F # << >>
    /\ \A i \in 1..Len(F) : /\ F[i].start.cnum \in Nat
                            /\ F[i].start = PosIn(t, F[i].start.cnum)
                            /\ Outer(F) <= F[i].start.cnum
    /\ \A i \in 2..Len(F) : F[i].start.cnum < F[i - 1].start.cnum

\* One construct that is open, and nothing around it.
LEMMA ChainOne ==
    ASSUME NEW t, NEW o, NEW c \in Nat, o.start = PosIn(t, c)
    PROVE  /\ Chain(t, <<o>> \o << >>) /\ Outer(<<o>> \o << >>) = c
           /\ (<<o>> \o << >>)[1] = o
<1>1. <<o>> \in Seq({o}) /\ <<o>> \o << >> = <<o>>
  OBVIOUS
<1>2. Len(<<o>>) = 1 /\ <<o>>[1] = o /\ <<o>> # << >>
  OBVIOUS
<1>3. o.start.cnum = c /\ o.start = PosIn(t, o.start.cnum)
  BY DEF PosIn
<1>4. Outer(<<o>>) = c
  BY <1>2, <1>3 DEF Outer
<1>5. \A i \in 1..1 : i = 1
  OBVIOUS
<1>6. \A i \in 2..1 : FALSE
  OBVIOUS
<1>7. Chain(t, <<o>>)
  <2>1. c <= c
    OBVIOUS
  <2> QED BY <2>1, <1>1, <1>2, <1>3, <1>4, <1>5, <1>6 DEF Chain
<1> QED BY <1>1, <1>2, <1>4, <1>7

\* An element put in front of a sequence.
LEMMA Prepended ==
    ASSUME NEW S, NEW F \in Seq(S), NEW o
    PROVE  /\ <<o>> \o F \in Seq(S \union {o}) /\ <<o>> \o F # << >>
           /\ Len(F) \in Nat /\ Len(<<o>> \o F) = Len(F) + 1
           /\ (<<o>> \o F)[1] = o
           /\ \A i \in 1..Len(F) : (<<o>> \o F)[i + 1] = F[i]
<1>1. F \in Seq(S \union {o}) /\ <<o>> \in Seq(S \union {o})
  OBVIOUS
<1>2. <<o>> \o F \in Seq(S \union {o}) /\ Len(<<o>> \o F) = Len(F) + 1 /\ Len(F) \in Nat
  BY <1>1
<1>3. <<o>> \o F # << >>
  BY <1>2
<1> QED BY <1>1, <1>2, <1>3

\* A construct is opened inside the others.
LEMMA ChainPush ==
    ASSUME NEW t, NEW F, Chain(t, F), NEW o, NEW c \in Nat, o.start = PosIn(t, c),
           F[1].start.cnum < c
    PROVE  /\ Chain(t, <<o>> \o F) /\ Outer(<<o>> \o F) = Outer(F)
           /\ (<<o>> \o F)[1] = o
<1>1. PICK S : F \in Seq(S)
  BY DEF Chain
<1>2. PICK G : G = <<o>> \o F
  OBVIOUS
<1>3. PICK n \in Nat : n = Len(F)
  BY <1>1
<1>4. G \in Seq(S \union {o}) /\ G # << >> /\ Len(G) = n + 1 /\ G[1] = o
  BY <1>1, <1>2, <1>3, Prepended
<1>5. \A i \in 1..n : G[i + 1] = F[i]
  BY <1>1, <1>2, <1>3, Prepended
<1>6. n \in 1..n /\ 1 \in 1..n
  <2>1. n # 0
    BY <1>1, <1>3 DEF Chain
  <2> QED BY <2>1
<1>7. G[n + 1] = F[n] /\ Outer(G) = Outer(F)
  <2>1. G[n + 1] = F[n]
    BY <1>5, <1>6
  <2> QED BY <2>1, <1>3, <1>4 DEF Outer
<1>8. o.start.cnum = c
  BY DEF PosIn
<1>9. Outer(F) \in Nat /\ F[1].start.cnum \in Nat /\ Outer(F) <= F[1].start.cnum
  BY <1>3, <1>6 DEF Outer, Chain
<1>10. ASSUME NEW i \in 1..(n + 1)
       PROVE  /\ G[i].start.cnum \in Nat
              /\ G[i].start = PosIn(t, G[i].start.cnum)
              /\ Outer(G) <= G[i].start.cnum
  <2>1. CASE i = 1
    <3>1. G[i].start.cnum = c /\ G[i].start = PosIn(t, c)
      BY <1>4, <1>8, <2>1
    <3>2. Outer(F) <= c
      BY <1>9
    <3> QED BY <1>7, <3>1, <3>2
  <2>2. CASE i # 1
    <3>1. PICK j \in 1..n : i = j + 1
      <4>1. i - 1 \in 1..n /\ i = (i - 1) + 1
        BY <2>2
      <4> QED BY <4>1
    <3>2. G[i] = F[j]
      BY <1>5, <3>1
    <3> QED BY <1>3, <1>7, <3>2 DEF Chain
  <2> QED BY <2>1, <2>2
<1>11. ASSUME NEW i \in 2..(n + 1)
       PROVE  G[i].start.cnum < G[i - 1].start.cnum
  <2>1. PICK j \in 1..n : i = j + 1 /\ i - 1 = j
    <3>1. i - 1 \in 1..n /\ i = (i - 1) + 1
      OBVIOUS
    <3> QED BY <3>1
  <2>2. G[i] = F[j]
    BY <1>5, <2>1
  <2>3. CASE j = 1
    <3>1. G[i - 1] = o
      BY <1>4, <2>1, <2>3
    <3> QED BY <2>2, <2>3, <3>1, <1>8
  <2>4. CASE j # 1
    <3>1. j \in 2..n
      BY <2>4
    <3>2. F[j].start.cnum < F[j - 1].start.cnum
      BY <3>1, <1>3 DEF Chain
    <3>3. j - 1 \in 1..n /\ (j - 1) + 1 = j
      BY <3>1
    <3>4. G[i - 1] = F[j - 1]
      BY <1>5, <2>1, <3>3
    <3> QED BY <2>2, <3>2, <3>4
  <2> QED BY <2>3, <2>4
<1>12. Chain(t, G)
  BY <1>4, <1>10, <1>11 DEF Chain
<1> QED BY <1>2, <1>4, <1>7, <1>12

\* The innermost construct is closed.
LEMMA ChainPop ==
    ASSUME NEW t, NEW S, NEW fs \in Seq(S), fs # << >>, NEW o, Chain(t, <<o>> \o fs)
    PROVE  /\ <<Head(fs)>> \o Tail(fs) = fs /\ Tail(fs) \in Seq(S)
           /\ Chain(t, fs) /\ Outer(fs) = Outer(<<o>> \o fs)
           /\ fs[1].start.cnum < o.start.cnum
           /\ o.start.cnum \in Nat /\ fs[1].start.cnum \in Nat
<1>1. <<Head(fs)>> \o Tail(fs) = fs /\ Tail(fs) \in Seq(S)
  OBVIOUS
<1>2. PICK G : G = <<o>> \o fs
  OBVIOUS
<1>3. PICK n \in Nat : n = Len(fs)
  OBVIOUS
<1>4. Len(G) = n + 1 /\ G[1] = o
  BY <1>2, <1>3, Prepended
<1>5. \A i \in 1..n : G[i + 1] = fs[i]
  BY <1>2, <1>3, Prepended
<1>6. n \in 1..n /\ 1 \in 1..n /\ \A i \in 1..n : i + 1 \in 1..(n + 1) /\ i + 1 \in 2..(n + 1)
  <2>1. n # 0
    BY <1>3
  <2> QED BY <2>1
<1>7. G[n + 1] = fs[n] /\ Outer(G) = Outer(fs)
  <2>1. G[n + 1] = fs[n]
    BY <1>5, <1>6
  <2> QED BY <2>1, <1>3, <1>4 DEF Outer
<1>8. Chain(t, G)
  BY <1>2
<1>9. ASSUME NEW i \in 1..n
      PROVE  /\ fs[i].start.cnum \in Nat
             /\ fs[i].start = PosIn(t, fs[i].start.cnum)
             /\ Outer(fs) <= fs[i].start.cnum
  <2>1. G[i + 1] = fs[i] /\ i + 1 \in 1..Len(G)
    BY <1>4, <1>5, <1>6
  <2> QED BY <1>7, <1>8, <2>1 DEF Chain
<1>10. ASSUME NEW i \in 1..n
       PROVE  fs[i].start.cnum < G[i].start.cnum
  <2>1. G[i + 1] = fs[i] /\ i + 1 \in 2..Len(G) /\ (i + 1) - 1 = i
    BY <1>4, <1>5, <1>6
  <2>2. G[i + 1].start.cnum < G[(i + 1) - 1].start.cnum
    BY <1>8, <2>1 DEF Chain
  <2> QED BY <2>1, <2>2
<1>11. ASSUME NEW i \in 2..n
       PROVE  fs[i].start.cnum < fs[i - 1].start.cnum
  <2>1. i \in 1..n /\ i - 1 \in 1..n /\ (i - 1) + 1 = i
    OBVIOUS
  <2>2. G[i] = fs[i - 1]
    BY <1>5, <2>1
  <2> QED BY <1>10, <2>1, <2>2
<1>12. Chain(t, fs)
  BY <1>3, <1>9, <1>11 DEF Chain
<1>13. fs[1].start.cnum < o.start.cnum
  BY <1>4, <1>6, <1>10
<1>14. o.start.cnum \in Nat
  <2>1. 1 \in 1..Len(G)
    BY <1>4
  <2> QED BY <1>4, <1>8, <2>1 DEF Chain
<1> QED BY <1>1, <1>2, <1>6, <1>7, <1>9, <1>12, <1>13, <1>14

-----------------------------------------------------------------------------
(* Where the rules are in the text.                                        *)

Constructs == {"string", "block", "line"}
Openings == <<thread.opening>> \o frames

\* Up to where the text has been made into units: to the opening of the
\* outermost construct, if there is one.
Base == IF pc \in Constructs THEN Outer(Openings) ELSE at

\* The logical position is that of the characters matched, and the text of an
\* open construct is what follows its outermost opening.
NestInv ==
    /\ text \in Seq(ToSet(text))
    /\ at \in 0..Len(text)
    /\ pc # "failed" => pos = PosIn(text, at)
    /\ thread = [opening |-> thread.opening, acc |-> thread.acc]
    /\ \E S : frames \in Seq(S)
    /\ pc \notin Constructs \union {"failed"} => thread = NoThread /\ frames = << >>
    /\ pc = "line" => frames = << >>
    /\ pc \in Constructs \/ frames # << >> => Chain(text, Openings)
    /\ pc \in Constructs =>
         /\ thread.opening.start.cnum < at
         /\ thread.acc = Part(text, Base, at)

\* A unit that is the part of a text between two places.
UnitOf(t, b, e, u) ==
    /\ b \in 0..e /\ e \in 0..Len(t)
    /\ u.region = Region(PosIn(t, b), PosIn(t, e))
    /\ Written(u) = Part(t, b, e)

\* What a step of a rule does to the units.
GoesOn ==
    /\ pc' \in RuleNames /\ Base' = Base
    /\ UNCHANGED <<markup, units>>
Pushes ==
    /\ pc' \in RuleNames /\ Base' = at'
    /\ \E u : /\ UnitOf(text, Base, at', u)
              /\ markup' = <<u>> \o markup
    /\ UNCHANGED units
Enqueues ==
    /\ pc' = caller /\ Base' = at'
    /\ \E u : /\ UnitOf(text, Base, at', u)
              /\ units' = Enq([markup |-> markup, token |-> u], units)
    /\ markup' = << >>
Fails ==
    /\ pc' = "failed"
    /\ UNCHANGED <<markup, units>>

RuleOutcome == NestInv' /\ text' = text /\ (GoesOn \/ Pushes \/ Enqueues \/ Fails)

\* A match moves the position as sync or Lexing.new_line does.
LEMMA Advances ==
    ASSUME NestInv, pos = PosIn(text, at), NEW m, NEW n, Lexed(text, at, m, n)
    PROVE  /\ at \in Nat /\ n \in Nat /\ n >= 1 /\ at + n \in 0..Len(text) /\ at < at + n
           /\ Len(m.lexeme) = n /\ m.lexeme = Part(text, at, at + n)
           /\ m.clause = "newline" => NewLine(pos, m.lexeme) = PosIn(text, at + n)
           /\ m.clause \notin {"newline", "invalid", "badescape"} =>
                Synced(m.lexeme) = PosIn(text, at + n)
<1>1. Len(m.lexeme) = n /\ m.lexeme = Part(text, at, at + n) /\ n \in 1..(Len(text) - at)
  BY DEF Lexed
<1>2. at \in 0..Len(text) /\ text \in Seq(ToSet(text))
  BY DEF NestInv
<1>3. Len(text) \in Nat
  BY <1>2
<1>4. at \in Nat /\ n \in Nat /\ n >= 1 /\ at + n \in 0..Len(text) /\ at < at + n
  BY <1>1, <1>2, <1>3
<1>5. m.clause = "newline" => NewLine(pos, m.lexeme) = PosIn(text, at + n)
  <2>1. m.clause = "newline" => IsBreak(text, at, n)
    BY DEF Lexed
  <2> QED BY <1>1, <1>4, <2>1, PosBreaks DEF NewLine
<1>6. m.clause \notin {"newline", "invalid", "badescape"} =>
         Synced(m.lexeme) = PosIn(text, at + n)
  <2>1. m.clause \notin {"newline", "invalid", "badescape"} =>
          \A k \in 1..n : text[at + k] \notin BreakChars
    BY DEF Lexed
  <2> QED BY <1>1, <1>4, <2>1, PosShifts DEF Synced
<1> QED BY <1>1, <1>4, <1>5, <1>6

\* A construct goes on: its text grows by the match.
LEMMA ExtendOutcome ==
    ASSUME PosInv, NestInv, NEW m, NEW n, Lexed(text, at, m, n),
           pc \in Constructs, pc' = pc, text' = text, at' = at + n,
           pos' = PosIn(text, at + n), frames' = frames,
           thread' = [thread EXCEPT !.acc = @ \o m.lexeme],
           UNCHANGED <<markup, units>>
    PROVE  RuleOutcome
<1>0. pc # "failed" /\ pc \in RuleNames
  BY DEF Constructs, RuleNames
<1>1. /\ at \in Nat /\ n \in Nat /\ n >= 1 /\ at + n \in 0..Len(text) /\ at < at + n
      /\ m.lexeme = Part(text, at, at + n)
  BY <1>0, Advances DEF NestInv
<1>2. /\ thread'.opening = thread.opening /\ thread'.acc = thread.acc \o m.lexeme
      /\ thread' = [opening |-> thread'.opening, acc |-> thread'.acc]
  BY DEF NestInv
<1>3. Openings' = Openings /\ Base' = Base
  BY <1>2 DEF Openings, Base
<1>4. Chain(text, Openings) /\ thread.opening.start.cnum < at /\ thread.acc = Part(text, Base, at)
  BY DEF NestInv
<1>5. Base \in Nat /\ Base <= at /\ thread.opening.start.cnum \in Nat
  <2>1. PICK S : frames \in Seq(S)
    BY DEF NestInv
  <2>2. Openings[1] = thread.opening /\ 1 \in 1..Len(Openings) /\ Len(Openings) \in 1..Len(Openings)
    BY <2>1, Prepended DEF Openings
  <2>3. Base = Outer(Openings)
    BY DEF Base
  <2>4. Outer(Openings) \in Nat
    BY <1>4, <2>2 DEF Chain, Outer
  <2>5. Outer(Openings) <= thread.opening.start.cnum /\ thread.opening.start.cnum \in Nat
    BY <1>4, <2>2 DEF Chain
  <2> QED BY <1>1, <1>4, <2>3, <2>4, <2>5
<1>6. thread'.acc = Part(text, Base, at + n)
  <2>1. text \in Seq(ToSet(text)) /\ at + n \in Nat /\ at <= at + n /\ at + n <= Len(text)
    BY <1>1 DEF NestInv
  <2>2. Part(text, Base, at) \o Part(text, at, at + n) = Part(text, Base, at + n)
    BY <1>1, <1>5, <2>1, PartsJoin, ZenonT(30)
  <2> QED BY <1>1, <1>2, <1>4, <2>2
<1>7. thread'.opening.start.cnum < at'
  BY <1>1, <1>2, <1>4, <1>5
<1>8. NestInv'
  BY <1>0, <1>1, <1>2, <1>3, <1>4, <1>6, <1>7 DEF NestInv
<1> QED BY <1>0, <1>3, <1>8 DEF RuleOutcome, GoesOn

\* The openings of an open construct and its text.
LEMMA OpenFacts ==
    ASSUME NestInv, pc \in Constructs
    PROVE  /\ Chain(text, Openings) /\ thread.opening.start.cnum < at
           /\ thread.acc = Part(text, Base, at)
           /\ Base \in Nat /\ Base <= at /\ Base = Outer(Openings)
           /\ thread.opening.start.cnum \in Nat
           /\ thread.opening.start = PosIn(text, thread.opening.start.cnum)
           /\ Openings[1] = thread.opening
<1>1. at \in Nat
  BY DEF NestInv
<1>4. Chain(text, Openings) /\ thread.opening.start.cnum < at /\ thread.acc = Part(text, Base, at)
  BY DEF NestInv
<1>5. PICK S : frames \in Seq(S)
  BY DEF NestInv
<1>6. Openings[1] = thread.opening /\ 1 \in 1..Len(Openings) /\ Len(Openings) \in 1..Len(Openings)
  BY <1>5, Prepended DEF Openings
<1>7. Base = Outer(Openings)
  BY DEF Base
<1>8. Outer(Openings) \in Nat
  BY <1>4, <1>6 DEF Chain, Outer
<1>9. Outer(Openings) <= thread.opening.start.cnum /\ thread.opening.start.cnum \in Nat
      /\ thread.opening.start = PosIn(text, thread.opening.start.cnum)
  BY <1>4, <1>6 DEF Chain
<1> QED BY <1>1, <1>4, <1>6, <1>7, <1>8, <1>9

\* scan calls the rule of a string or of a comment.
LEMMA OpenOutcome ==
    ASSUME PosInv, NestInv, NEW m, NEW n, Lexed(text, at, m, n),
           pc = "scan", pc' \in Constructs, text' = text, at' = at + n,
           pos' = PosIn(text, at + n), frames' = frames,
           thread' = [opening |-> RegionOf(m.lexeme), acc |-> m.lexeme],
           UNCHANGED <<markup, units>>
    PROVE  RuleOutcome
<1>0. pc # "failed" /\ pc \notin Constructs /\ pc' \in RuleNames /\ pc' # "failed"
  BY DEF Constructs, RuleNames
<1>1. /\ at \in Nat /\ n \in Nat /\ n >= 1 /\ at + n \in 0..Len(text) /\ at < at + n
      /\ m.lexeme = Part(text, at, at + n)
  BY <1>0, Advances DEF NestInv
<1>2. frames = << >> /\ pos = PosIn(text, at) /\ Base = at
  BY <1>0 DEF NestInv, Base
<1>3. thread'.opening.start = PosIn(text, at) /\ thread'.opening.start.cnum = at
      /\ thread'.acc = Part(text, at, at + n)
      /\ thread' = [opening |-> thread'.opening, acc |-> thread'.acc]
  BY <1>1, <1>2 DEF RegionOf, Region, PosIn
<1>4. Openings' = <<thread'.opening>> \o << >>
  BY <1>2 DEF Openings
<1>5. Chain(text, Openings') /\ Outer(Openings') = at
  BY <1>1, <1>3, <1>4, ChainOne, SMTT(30)
<1>6. Base' = at
  BY <1>5 DEF Base
<1>7. thread'.opening.start.cnum < at' /\ thread'.acc = Part(text', Base', at')
  BY <1>1, <1>3, <1>6
<1>8. NestInv'
  BY <1>0, <1>1, <1>2, <1>3, <1>5, <1>7 DEF NestInv
<1> QED BY <1>0, <1>2, <1>6, <1>8 DEF RuleOutcome, GoesOn

\* A string or a comment begins inside a block comment.
LEMMA NestOutcome ==
    ASSUME PosInv, NestInv, NEW m, NEW n, Lexed(text, at, m, n),
           pc = "block", pc' \in {"string", "block"}, text' = text, at' = at + n,
           pos' = PosIn(text, at + n), frames' = <<thread.opening>> \o frames,
           thread' = [opening |-> RegionOf(m.lexeme), acc |-> thread.acc \o m.lexeme],
           UNCHANGED <<markup, units>>
    PROVE  RuleOutcome
<1>0. pc # "failed" /\ pc \in Constructs /\ pc' \in RuleNames /\ pc' # "failed" /\ pc' # "line"
      /\ pc' \in Constructs
  BY DEF Constructs, RuleNames
<1>1. /\ at \in Nat /\ n \in Nat /\ n >= 1 /\ at + n \in 0..Len(text) /\ at < at + n
      /\ m.lexeme = Part(text, at, at + n)
  BY <1>0, Advances DEF NestInv
<1>2. pos = PosIn(text, at)
  BY <1>0 DEF NestInv
<1>3. thread'.opening.start = PosIn(text, at) /\ thread'.opening.start.cnum = at
      /\ thread'.acc = thread.acc \o Part(text, at, at + n)
      /\ thread' = [opening |-> thread'.opening, acc |-> thread'.acc]
  BY <1>1, <1>2 DEF RegionOf, Region, PosIn
<1>4. Openings' = <<thread'.opening>> \o Openings
  BY DEF Openings
<1>5. Openings[1].start.cnum < at /\ Chain(text, Openings)
  BY <1>0, OpenFacts
<1>6. Chain(text, Openings') /\ Outer(Openings') = Outer(Openings)
  BY <1>1, <1>3, <1>4, <1>5, ChainPush
<1>7. Base' = Base
  BY <1>0, <1>6 DEF Base
<1>8. thread'.opening.start.cnum < at' /\ thread'.acc = Part(text', Base', at')
  <2>1. thread.acc = Part(text, Base, at) /\ Base \in Nat /\ Base <= at
    BY <1>0, OpenFacts
  <2>2. text \in Seq(ToSet(text)) /\ at + n \in Nat /\ at <= at + n /\ at + n <= Len(text)
    BY <1>1 DEF NestInv
  <2>3. Part(text, Base, at) \o Part(text, at, at + n) = Part(text, Base, at + n)
    BY <1>1, <2>1, <2>2, PartsJoin
  <2> QED BY <1>1, <1>3, <1>7, <2>1, <2>3
<1>9. \E S : frames' \in Seq(S)
  <2>1. PICK S : frames \in Seq(S)
    BY DEF NestInv
  <2> QED BY <2>1, Prepended
<1>10. NestInv'
  BY <1>0, <1>1, <1>3, <1>6, <1>8, <1>9 DEF NestInv
<1> QED BY <1>0, <1>7, <1>10 DEF RuleOutcome, GoesOn

\* It ends, and the block comment around it goes on.
LEMMA ResumeOutcome ==
    ASSUME PosInv, NestInv, NEW m, NEW n, Lexed(text, at, m, n),
           pc \in Constructs, frames # << >>, pc' = "block", text' = text, at' = at + n,
           pos' = PosIn(text, at + n), frames' = Tail(frames),
           thread' = [opening |-> Head(frames), acc |-> thread.acc \o m.lexeme],
           UNCHANGED <<markup, units>>
    PROVE  RuleOutcome
<1>0. pc # "failed" /\ pc' \in RuleNames /\ pc' # "failed" /\ pc' # "line" /\ pc' \in Constructs
  BY DEF Constructs, RuleNames
<1>1. /\ at \in Nat /\ n \in Nat /\ n >= 1 /\ at + n \in 0..Len(text) /\ at < at + n
      /\ m.lexeme = Part(text, at, at + n)
  BY <1>0, Advances DEF NestInv
<1>3. thread'.opening = Head(frames) /\ thread'.acc = thread.acc \o Part(text, at, at + n)
      /\ thread' = [opening |-> thread'.opening, acc |-> thread'.acc]
  BY <1>1
<1>4. PICK S : frames \in Seq(S)
  BY DEF NestInv
<1>5. Chain(text, Openings) /\ thread.opening.start.cnum < at
  BY <1>0, OpenFacts
<1>a. PICK o : o = thread.opening
  OBVIOUS
<1>b. PICK fs \in Seq(S) : fs = frames /\ fs # << >>
  BY <1>4
<1>6. /\ <<Head(fs)>> \o Tail(fs) = fs /\ Tail(fs) \in Seq(S)
      /\ Chain(text, fs) /\ Outer(fs) = Outer(<<o>> \o fs)
      /\ fs[1].start.cnum < o.start.cnum
      /\ o.start.cnum \in Nat /\ fs[1].start.cnum \in Nat
  <2>1. Chain(text, <<o>> \o fs)
    BY <1>5, <1>a, <1>b DEF Openings
  <2> QED BY <2>1, <1>b, ChainPop
<1>7. Openings' = fs /\ Chain(text, Openings') /\ Outer(Openings') = Outer(Openings)
  <2>1. Openings' = <<Head(fs)>> \o Tail(fs) /\ Openings = <<o>> \o fs
    BY <1>3, <1>a, <1>b DEF Openings
  <2> QED BY <1>6, <2>1
<1>8. Base' = Base
  BY <1>0, <1>7 DEF Base
<1>9. thread'.opening.start.cnum < at'
  <2>1. Head(fs) = fs[1]
    BY <1>b
  <2>2. thread'.opening.start.cnum = fs[1].start.cnum
    BY <1>3, <1>b, <2>1
  <2> QED BY <1>1, <1>5, <1>6, <1>a, <2>2
<1>10. thread'.acc = Part(text', Base', at')
  <2>1. thread.acc = Part(text, Base, at) /\ Base \in Nat /\ Base <= at
    BY <1>0, OpenFacts
  <2>2. text \in Seq(ToSet(text)) /\ at + n \in Nat /\ at <= at + n /\ at + n <= Len(text)
    BY <1>1 DEF NestInv
  <2>3. Part(text, Base, at) \o Part(text, at, at + n) = Part(text, Base, at + n)
    BY <1>1, <2>1, <2>2, PartsJoin
  <2> QED BY <1>1, <1>3, <1>8, <2>1, <2>3
<1>11. \E T : frames' \in Seq(T)
  BY <1>6, <1>b
<1>12. NestInv'
  BY <1>0, <1>1, <1>3, <1>7, <1>9, <1>10, <1>11 DEF NestInv
<1> QED BY <1>0, <1>8, <1>12 DEF RuleOutcome, GoesOn

\* A rule fails where it is, before or after the match.
LEMMA FailOutcome ==
    ASSUME PosInv, NestInv, pc' = "failed", text' = text, at' \in 0..Len(text),
           UNCHANGED <<thread, frames, markup, units>>
    PROVE  RuleOutcome
<1>1. Openings' = Openings /\ pc' \notin Constructs
  BY DEF Openings, Constructs
<1>2. frames # << >> => Chain(text, Openings)
  BY DEF NestInv
<1>3. NestInv'
  BY <1>1, <1>2 DEF NestInv
<1> QED BY <1>3 DEF RuleOutcome, Fails

\* The rule that goes on or that is left keeps nothing open.
LEMMA PlainInv ==
    ASSUME NestInv, pc' \in (RuleNames \ Constructs) \union Waiting, text' = text,
           at' \in 0..Len(text), pos' = PosIn(text, at'), thread' = NoThread, frames' = << >>
    PROVE  NestInv' /\ Base' = at'
<1>1. pc' \notin Constructs /\ pc' # "failed"
  BY DEF RuleNames, Waiting, Constructs
<1>2. thread' = [opening |-> thread'.opening, acc |-> thread'.acc]
  BY DEF NoThread
<1>3. << >> \in Seq({})
  OBVIOUS
<1>4. NestInv'
  BY <1>1, <1>2, <1>3 DEF NestInv, Constructs
<1> QED BY <1>1, <1>4 DEF Base

\* The unit that the match makes by itself.
LEMMA PlainUnit ==
    ASSUME NestInv, pc \in RuleNames \ Constructs, NEW m, NEW n, Lexed(text, at, m, n),
           NEW kind, kind # "bytes", NEW stop, stop = PosIn(text, at + n)
    PROVE  UnitOf(text, Base, at + n, Token(kind, m.lexeme, Region(pos, stop)))
<1>0. pc # "failed" /\ pc \notin Constructs
  BY DEF RuleNames
<1>1. pos = PosIn(text, at) /\ Base = at
  BY <1>0 DEF NestInv, Base
<1>2. /\ at \in Nat /\ n \in Nat /\ n >= 1 /\ at + n \in 0..Len(text) /\ at < at + n
      /\ m.lexeme = Part(text, at, at + n)
  BY <1>1, Advances
<1>3. Part(text, at, at + n) \in Seq(ToSet(text))
  BY <1>2, PartIs DEF NestInv
<1>4. Written(Token(kind, m.lexeme, Region(pos, stop))) = m.lexeme
  BY <1>2, <1>3 DEF Written, Token
<1>5. Token(kind, m.lexeme, Region(pos, stop)).region = Region(pos, stop)
  BY DEF Token
<1> QED BY <1>1, <1>2, <1>4, <1>5 DEF UnitOf

\* The unit of a construct that is closed.
LEMMA ClosedUnit ==
    ASSUME NestInv, pc \in Constructs, frames = << >>, NEW m, NEW n, Lexed(text, at, m, n),
           NEW kind, kind # "bytes", NEW stop, stop = PosIn(text, at + n)
    PROVE  UnitOf(text, Base, at + n, Token(kind, thread.acc \o m.lexeme, ThreadRegion(stop)))
<1>0. pc # "failed"
  BY DEF Constructs
<1>1. pos = PosIn(text, at)
  BY <1>0 DEF NestInv
<1>2. /\ at \in Nat /\ n \in Nat /\ n >= 1 /\ at + n \in 0..Len(text) /\ at < at + n
      /\ m.lexeme = Part(text, at, at + n)
  BY <1>1, Advances
<1>3. thread.acc = Part(text, Base, at) /\ Base \in Nat /\ Base <= at /\ Base = Outer(Openings)
  BY OpenFacts
<1>4. text \in Seq(ToSet(text)) /\ at + n \in Nat /\ at <= at + n /\ at + n <= Len(text)
  BY <1>2 DEF NestInv
<1>5. thread.acc \o m.lexeme = Part(text, Base, at + n)
  BY <1>2, <1>3, <1>4, PartsJoin
<1>6. Part(text, Base, at + n) \in Seq(ToSet(text))
  <2>1. Base <= at + n
    BY <1>2, <1>3
  <2> QED BY <1>3, <1>4, <2>1, PartIs
<1>7. Written(Token(kind, thread.acc \o m.lexeme, ThreadRegion(stop))) = Part(text, Base, at + n)
  BY <1>5, <1>6 DEF Written, Token
<1>8. thread.opening.start = PosIn(text, Base)
  <2>1. Openings = <<thread.opening>> /\ Len(<<thread.opening>>) = 1
        /\ <<thread.opening>>[1] = thread.opening
    BY DEF Openings
  <2>2. Outer(Openings) = thread.opening.start.cnum
    BY <2>1 DEF Outer
  <2> QED BY <1>3, <2>2, OpenFacts
<1>9. Token(kind, thread.acc \o m.lexeme, ThreadRegion(stop)).region
        = Region(PosIn(text, Base), PosIn(text, at + n))
  BY <1>8 DEF Token, ThreadRegion, Region
<1>10. Base \in 0..(at + n)
  BY <1>2, <1>3
<1> QED BY <1>2, <1>7, <1>9, <1>10 DEF UnitOf

\* What mk_bytes keeps of a sequence of bytes, with the 0x that Written gives back.
LEMMA BytesUnit ==
    ASSUME NestInv, pc = "scan", NEW m, NEW n, Lexed(text, at, m, n),
           m.clause = "bytes", Matches("bytes", m.lexeme),
           NEW stop, stop = PosIn(text, at + n)
    PROVE  UnitOf(text, Base, at + n,
                  Token("bytes", SubSeq(m.lexeme, 3, Len(m.lexeme)), Region(pos, stop)))
<1>0. pc # "failed" /\ pc \notin Constructs
  BY DEF Constructs
<1>1. pos = PosIn(text, at) /\ Base = at
  BY <1>0 DEF NestInv, Base
<1>2. /\ at \in Nat /\ n \in Nat /\ n >= 1 /\ at + n \in 0..Len(text) /\ at < at + n
      /\ m.lexeme = Part(text, at, at + n) /\ Len(m.lexeme) = n
  BY <1>1, Advances
<1>3. PICK x : x = m.lexeme
  OBVIOUS
<1>4. x \in Seq(ToSet(text)) /\ Len(x) = n
  BY <1>2, <1>3, PartIs DEF NestInv
<1>5. n >= 2 /\ x[1] = "0" /\ x[2] = "x"
  BY <1>3, <1>4 DEF Matches, IsBytes
<1>6. PICK y : y = SubSeq(x, 3, n)
  OBVIOUS
<1>7. y \in Seq(ToSet(text)) /\ Len(y) = n - 2 /\ \A k \in 1..(n - 2) : y[k] = x[k + 2]
  <2>1. y \in Seq(ToSet(text))
    BY <1>2, <1>4, <1>5, <1>6
  <2>2. Len(y) = IF 3 <= n THEN n - 3 + 1 ELSE 0
    BY <1>2, <1>4, <1>6
  <2>3. Len(y) = n - 2
    <3>1. CASE n = 2
      <4>1. ~(3 <= n) /\ n - 2 = 0
        BY <3>1
      <4> QED BY <4>1, <2>2, Zenon
    <3>2. CASE n # 2
      BY <1>2, <1>5, <2>2, <3>2
    <3> QED BY <3>1, <3>2
  <2>4. \A k \in 1..(n - 2) : y[k] = x[k + 2]
    BY <1>2, <1>4, <1>5, <1>6
  <2> QED BY <2>1, <2>3, <2>4
<1>8. <<"0", "x">> \o y = x
  <2>1. PICK z : z = <<"0", "x">>
    OBVIOUS
  <2>2. z \in Seq({"0", "x"}) /\ Len(z) = 2 /\ z[1] = "0" /\ z[2] = "x"
    BY <2>1
  <2>3. z \in Seq(ToSet(text) \union {"0", "x"}) /\ y \in Seq(ToSet(text) \union {"0", "x"})
    BY <1>7, <2>1
  <2>4. z \o y \in Seq(ToSet(text) \union {"0", "x"}) /\ Len(z \o y) = 2 + Len(y)
    <3>1. z \o y \in Seq(ToSet(text) \union {"0", "x"}) /\ Len(z \o y) = Len(z) + Len(y)
      BY <2>3
    <3> QED BY <2>2, <3>1
  <2>5. Len(z \o y) = Len(x)
    <3>1. Len(z \o y) = 2 + (n - 2) /\ Len(x) = n
      BY <1>4, <1>7, <2>4
    <3>2. 2 + (n - 2) = n
      BY <1>2
    <3> QED BY <3>1, <3>2
  <2>6. ASSUME NEW k \in 1..n
        PROVE  (z \o y)[k] = x[k]
    <3>1. CASE k \in 1..2
      <4>0. k \in 1..Len(z) /\ (k = 1 \/ k = 2)
        BY <2>2, <3>1
      <4>1. (z \o y)[k] = z[k] /\ (k = 1 \/ k = 2)
        BY <2>3, <4>0
      <4> QED BY <4>1, <2>2, <1>5
    <3>2. CASE k \notin 1..2
      <4>1. k - 2 \in 1..(n - 2) /\ (k - 2) + 2 = k /\ k \in 3..(2 + Len(y))
        BY <1>2, <1>5, <1>7, <3>2
      <4>a. k \in (Len(z) + 1)..(Len(z) + Len(y)) /\ k - Len(z) = k - 2
        BY <2>2, <4>1
      <4>2. (z \o y)[k] = y[k - 2]
        <5>1. (z \o y)[k] = y[k - Len(z)]
          BY <2>3, <4>a
        <5> QED BY <5>1, <4>a
      <4> QED BY <1>7, <4>1, <4>2
    <3> QED BY <3>1, <3>2
  <2>7. \A k \in 1..Len(z \o y) : (z \o y)[k] = x[k]
    BY <1>4, <2>5, <2>6
  <2> QED BY <1>4, <2>1, <2>4, <2>5, <2>7, SameSeq
<1>9. Written(Token("bytes", SubSeq(m.lexeme, 3, Len(m.lexeme)), Region(pos, stop))) = m.lexeme
  BY <1>3, <1>4, <1>6, <1>8 DEF Written, Token
<1>10. Token("bytes", SubSeq(m.lexeme, 3, Len(m.lexeme)), Region(pos, stop)).region = Region(pos, stop)
  BY DEF Token
<1> QED BY <1>1, <1>2, <1>9, <1>10 DEF UnitOf

\* The byte-order mark, which the rule init takes.
LEMMA BomMatch ==
    ASSUME NestInv, pos = PosIn(text, at), IsPrefix(BOM, Rest)
    PROVE  \E m, n : Lexed(text, at, m, n) /\ m.lexeme = BOM /\ m.clause = "bom"
<1>1. PICK S : S = ToSet(text) /\ text \in Seq(S)
  BY DEF NestInv
<1>2. PICK l \in Nat : l = Len(text)
  BY <1>1
<1>3. at \in Nat /\ at <= l /\ at <= Len(text)
  BY <1>2 DEF NestInv
<1>4. PICK r : r = Rest
  OBVIOUS
<1>5. r \in Seq(S) /\ Len(r) = l - at
  BY <1>1, <1>2, <1>3, <1>4, RestPart DEF Rest
<1>6. \A k \in 1..(l - at) : SubSeq(r, 1, k) = Part(text, at, at + k)
  <2>1. \A k \in 1..(Len(text) - at) :
           SubSeq(SubSeq(text, at + 1, Len(text)), 1, k) = Part(text, at, at + k)
    BY <1>1, <1>3, RestPart
  <2> QED BY <1>2, <1>4, <2>1 DEF Rest
<1>7. BOM \in Seq({"EF", "BB", "BF"}) /\ Len(BOM) = 3
      /\ BOM[1] = "EF" /\ BOM[2] = "BB" /\ BOM[3] = "BF" /\ SubSeq(BOM, 1, 3) = BOM
  <2>1. BOM \in Seq({"EF", "BB", "BF"}) /\ Len(BOM) = 3
        /\ BOM[1] = "EF" /\ BOM[2] = "BB" /\ BOM[3] = "BF"
    BY DEF BOM
  <2>2. PICK b : b = SubSeq(BOM, 1, 3)
    OBVIOUS
  <2>3. b \in Seq({"EF", "BB", "BF"}) /\ Len(b) = 3 /\ \A k \in 1..3 : b[k] = BOM[k]
    BY <2>1, <2>2
  <2>4. b = BOM
    BY <2>1, <2>3, SameSeq
  <2> QED BY <2>1, <2>2, <2>4
<1>8. 3 \in 1..(l - at) /\ SubSeq(r, 1, 3) = BOM
  BY <1>2, <1>3, <1>4, <1>5, <1>7 DEF IsPrefix
<1>9. BOM = Part(text, at, at + 3)
  BY <1>6, <1>8
<1>10. \A k \in 1..3 : text[at + k] \notin BreakChars
  <2>1. PICK b \in Nat : b = at + 3
    BY <1>3
  <2>2. at <= b /\ b <= Len(text) /\ b - at = 3
    BY <1>2, <1>3, <1>8, <2>1
  <2>3. \A k \in 1..(b - at) : Part(text, at, b)[k] = text[at + k]
    BY <1>1, <1>3, <2>2, PartIs
  <2>4. \A k \in 1..3 : BOM[k] = text[at + k]
    BY <1>9, <2>1, <2>2, <2>3
  <2>5. \A k \in 1..3 : BOM[k] \notin BreakChars
    <3>1. \A k \in 1..3 : k = 1 \/ k = 2 \/ k = 3
      OBVIOUS
    <3> QED BY <1>7, <3>1 DEF BreakChars
  <2> QED BY <2>4, <2>5
<1> DEFINE m == [clause |-> "bom", lexeme |-> BOM]
<1>11. Lexed(text, at, m, 3)
  BY <1>2, <1>7, <1>8, <1>9, <1>10 DEF Lexed
<1> QED BY <1>11

\* The rule init has one of the outcomes.
LEMMA InitOutcome ==
    ASSUME PosInv, NestInv, InitRule
    PROVE  RuleOutcome
<1>0. pc = "init" /\ pc \in RuleNames \ Constructs /\ pc # "failed" /\ pc \notin Constructs
  BY DEF InitRule, RuleNames, Constructs
<1>1. /\ pos = PosIn(text, at) /\ Base = at /\ thread = NoThread /\ frames = << >>
      /\ at \in 0..Len(text)
  BY <1>0 DEF NestInv, Base
<1>2. CASE IsPrefix(BOM, Rest)
  <2>1. PICK m, n : Lexed(text, at, m, n) /\ m.lexeme = BOM /\ m.clause = "bom"
    BY <1>1, <1>2, BomMatch
  <2>2. /\ at + n \in 0..Len(text) /\ Len(BOM) = n /\ Synced(BOM) = PosIn(text, at + n)
    BY <1>1, <2>1, Advances
  <2>3. /\ at' = at + n /\ text' = text /\ pc' = "scan" /\ thread' = NoThread /\ frames' = << >>
        /\ pos' = PosIn(text, at + n) /\ units' = units
        /\ markup' = <<Token("bom", BOM, RegionOf(BOM))>> \o markup
    <3>1. ~(AtEof /\ Fail("Failure", RegionOf(<< >>))) \/ AtEof
      OBVIOUS
    <3>2. ~AtEof
      <4>1. Len(BOM) = 3
        BY DEF BOM
      <4>2. text \in Seq(ToSet(text))
        BY DEF NestInv
      <4> QED BY <1>1, <2>1, <4>2 DEF AtEof, Lexed
    <3> QED BY <1>1, <1>2, <2>2, <3>2 DEF InitRule, Match, Push, Continue, streamVars
  <2>4. NestInv' /\ Base' = at'
    <3>1. pc' \in (RuleNames \ Constructs) \union Waiting
      BY <2>3 DEF RuleNames, Constructs
    <3> QED BY <2>2, <2>3, <3>1, PlainInv
  <2>5. UnitOf(text, Base, at', Token("bom", BOM, RegionOf(BOM)))
    <3>1. RegionOf(BOM) = Region(pos, PosIn(text, at + n))
      BY <2>2 DEF RegionOf
    <3> QED BY <1>0, <2>1, <2>3, <3>1, PlainUnit
  <2> QED BY <2>3, <2>4, <2>5 DEF RuleOutcome, Pushes, RuleNames
<1>3. CASE ~IsPrefix(BOM, Rest) /\ ~AtEof
  <2>1. /\ at' = at /\ text' = text /\ pc' = "scan" /\ thread' = thread /\ frames' = frames
        /\ UNCHANGED <<units, markup, pos>>
    BY <1>3 DEF InitRule, Continue, state
  <2>2. pc' \in (RuleNames \ Constructs) \union Waiting
    BY <2>1 DEF RuleNames, Constructs
  <2>3. NestInv' /\ Base' = at'
    BY <1>1, <2>1, <2>2, PlainInv
  <2> QED BY <1>1, <2>1, <2>3 DEF RuleOutcome, GoesOn, RuleNames
<1>4. CASE ~IsPrefix(BOM, Rest) /\ AtEof
  <2>1. /\ at' = at /\ text' = text /\ pc' = "failed"
        /\ UNCHANGED <<thread, frames, markup, units>>
    BY <1>4 DEF InitRule, Fail, state
  <2> QED BY <1>1, <2>1, FailOutcome
<1> QED BY <1>2, <1>3, <1>4

\* Every step of a rule that matches something, for the match that it takes.
LEMMA MatchOutcome ==
    ASSUME PosInv, NestInv, pc \in MatchRules, NEW m, NEW n, Lexed(text, at, m, n),
           pc = "scan" /\ m.clause = "bytes" => Matches("bytes", m.lexeme),
           Rules(m)
    PROVE  RuleOutcome
<1>0. pc # "failed" /\ pc \in RuleNames
  BY DEF MatchRules, RuleNames
<1>1. pos = PosIn(text, at)
  BY <1>0 DEF NestInv
<1>2. /\ at \in Nat /\ n \in Nat /\ n >= 1 /\ at + n \in 0..Len(text) /\ at < at + n
      /\ Len(m.lexeme) = n /\ m.lexeme = Part(text, at, at + n)
      /\ m.clause = "newline" => NewLine(pos, m.lexeme) = PosIn(text, at + n)
      /\ m.clause \notin {"newline", "invalid", "badescape"} =>
           Synced(m.lexeme) = PosIn(text, at + n)
  BY <1>1, Advances
<1>3. pc = "scan" => /\ thread = NoThread /\ frames = << >> /\ pc \in RuleNames \ Constructs
                     /\ pc \notin Constructs
  BY <1>0 DEF NestInv, Constructs
<1>4. "scan" \in (RuleNames \ Constructs) \union Waiting
  BY DEF RuleNames, Constructs
<1>5. pc \in RuleNames => caller \in (RuleNames \ Constructs) \union Waiting
  BY DEF PosInv, Waiting
<1>6. CASE pc = "scan" /\ ScanNewline(m)
  <2> DEFINE stop == NewLine(pos, m.lexeme)
             u == Token("newline", m.lexeme, Region(pos, stop))
  <2>1. /\ at' = at + n /\ text' = text /\ pc' = "scan" /\ thread' = NoThread /\ frames' = << >>
        /\ pos' = PosIn(text, at + n) /\ units' = units /\ markup' = <<u>> \o markup
    BY <1>2, <1>3, <1>6 DEF ScanNewline, MatchLine, Push, Continue, streamVars
  <2>2. NestInv' /\ Base' = at'
    BY <1>2, <1>4, <2>1, PlainInv
  <2>3. UnitOf(text, Base, at', u)
    <3>1. stop = PosIn(text, at + n)
      BY <1>2, <1>6 DEF ScanNewline
    <3> QED BY <1>3, <1>6, <2>1, <3>1, PlainUnit
  <2> QED BY <2>1, <2>2, <2>3 DEF RuleOutcome, Pushes, RuleNames
<1>7. CASE pc = "scan" /\ ScanBlank(m)
  <2> DEFINE u == Token(m.clause, m.lexeme, Region(pos, Synced(m.lexeme)))
  <2>0. m.clause \in {"space", "tabs"} /\ m.clause # "bytes"
        /\ Synced(m.lexeme) = PosIn(text, at + n)
    BY <1>2, <1>7 DEF ScanBlank
  <2>1. /\ at' = at + n /\ text' = text /\ pc' = "scan" /\ thread' = NoThread /\ frames' = << >>
        /\ pos' = PosIn(text, at + n) /\ units' = units /\ markup' = <<u>> \o markup
    BY <1>2, <1>3, <1>7, <2>0 DEF ScanBlank, Match, Push, Continue, streamVars, RegionOf
  <2>2. NestInv' /\ Base' = at'
    BY <1>2, <1>4, <2>1, PlainInv
  <2>3. UnitOf(text, Base, at', u)
    BY <1>3, <1>7, <2>0, <2>1, PlainUnit
  <2> QED BY <2>1, <2>2, <2>3 DEF RuleOutcome, Pushes, RuleNames
<1>8. CASE pc = "scan" /\ ScanToken(m)
  <2> DEFINE u == MakeToken(m.clause, m.lexeme)
  <2>0. m.clause \in {"ident", "constr", "bytes", "nat", "mtz", "int", "symbol"}
        /\ Synced(m.lexeme) = PosIn(text, at + n)
    BY <1>2, <1>8 DEF ScanToken
  <2>1. /\ at' = at + n /\ text' = text /\ pc' = caller /\ thread' = NoThread /\ frames' = << >>
        /\ pos' = PosIn(text, at + n) /\ markup' = << >>
        /\ units' = Enq([markup |-> markup, token |-> u], units)
    BY <1>2, <1>3, <1>8, <2>0 DEF ScanToken, Match, Enqueue, Return
  <2>2. NestInv' /\ Base' = at'
    <3>1. pc' \in (RuleNames \ Constructs) \union Waiting
      BY <1>0, <1>5, <2>1
    <3> QED BY <1>2, <2>1, <3>1, PlainInv
  <2>3. UnitOf(text, Base, at', u)
    <3>1. CASE m.clause = "bytes"
      <4>1. u = Token("bytes", SubSeq(m.lexeme, 3, Len(m.lexeme)), Region(pos, Synced(m.lexeme)))
        BY <3>1 DEF MakeToken, RegionOf
      <4>2. Matches("bytes", m.lexeme)
        BY <1>8, <3>1
      <4> QED BY <1>8, <2>0, <2>1, <3>1, <4>1, <4>2, BytesUnit
    <3>2. CASE m.clause # "bytes"
      <4> DEFINE kind == IF m.clause = "ident" /\ m.lexeme \in Keywords THEN "keyword" ELSE m.clause
      <4>1. u = Token(kind, m.lexeme, Region(pos, Synced(m.lexeme)))
        BY <3>2 DEF MakeToken, RegionOf
      <4>2. kind # "bytes"
        BY <3>2
      <4> QED BY <1>3, <1>8, <2>0, <2>1, <4>1, <4>2, PlainUnit
    <3> QED BY <3>1, <3>2
  <2> HIDE DEF u
  <2> QED BY <2>1, <2>2, <2>3 DEF RuleOutcome, Enqueues
<1>9. CASE pc = "scan" /\ ScanError(m)
  <2>1. /\ at' \in 0..Len(text) /\ text' = text /\ pc' = "failed"
        /\ UNCHANGED <<thread, frames, markup, units>>
    BY <1>2, <1>9 DEF ScanError, Match, Fail, state
  <2> QED BY <2>1, FailOutcome
<1>10. CASE pc = "scan" /\ ScanOpening(m)
  <2>0. m.clause \in Constructs /\ Synced(m.lexeme) = PosIn(text, at + n)
    BY <1>2, <1>10 DEF ScanOpening, Constructs
  <2>1. /\ at' = at + n /\ text' = text /\ pc' \in Constructs /\ frames' = frames
        /\ pos' = PosIn(text, at + n) /\ UNCHANGED <<markup, units>>
        /\ thread' = [opening |-> RegionOf(m.lexeme), acc |-> m.lexeme]
    BY <1>2, <1>10, <2>0 DEF ScanOpening, Match, Move, Continue
  <2> QED BY <1>10, <2>1, OpenOutcome
<1>11. CASE pc = "string" /\ StringContinues(m)
  <2>1. /\ at' = at + n /\ text' = text /\ pc' = pc /\ frames' = frames /\ pc \in Constructs
        /\ pos' = PosIn(text, at + n) /\ UNCHANGED <<markup, units>>
        /\ thread' = [thread EXCEPT !.acc = @ \o m.lexeme]
    BY <1>2, <1>11 DEF StringContinues, Extend, Match, Move, Continue, Constructs
  <2> QED BY <2>1, ExtendOutcome
<1>12. CASE pc = "string" /\ StringCloses(m)
  <2>0. m.clause = "string" /\ Synced(m.lexeme) = PosIn(text, at + n) /\ pc \in Constructs
    BY <1>2, <1>12 DEF StringCloses, Constructs
  <2>1. CASE frames # << >>
    <3>1. /\ at' = at + n /\ text' = text /\ pc' = "block" /\ frames' = Tail(frames)
          /\ pos' = PosIn(text, at + n) /\ UNCHANGED <<markup, units>>
          /\ thread' = [opening |-> Head(frames), acc |-> thread.acc \o m.lexeme]
      BY <1>2, <1>12, <2>0, <2>1 DEF StringCloses, ResumeBlock, Match, Move, Continue
    <3> QED BY <2>0, <2>1, <3>1, ResumeOutcome
  <2>2. CASE frames = << >>
    <3> DEFINE u == Token("string", thread.acc \o m.lexeme, ThreadRegion(Synced(m.lexeme)))
    <3>1. /\ at' = at + n /\ text' = text /\ pc' = caller /\ thread' = NoThread /\ frames' = << >>
          /\ pos' = PosIn(text, at + n) /\ markup' = << >>
          /\ units' = Enq([markup |-> markup, token |-> u], units)
      BY <1>2, <1>12, <2>0, <2>2 DEF StringCloses, Match, Enqueue, Return
    <3>2. NestInv' /\ Base' = at'
      <4>1. pc' \in (RuleNames \ Constructs) \union Waiting
        BY <1>0, <1>5, <3>1
      <4> QED BY <1>2, <3>1, <4>1, PlainInv
    <3>3. UnitOf(text, Base, at', u)
      BY <2>0, <2>2, <3>1, ClosedUnit
    <3> HIDE DEF u
    <3> QED BY <3>1, <3>2, <3>3 DEF RuleOutcome, Enqueues
  <2> QED BY <2>1, <2>2
<1>13. CASE pc = "string" /\ StringFails(m)
  <2>1. /\ at' \in 0..Len(text) /\ text' = text /\ pc' = "failed"
        /\ UNCHANGED <<thread, frames, markup, units>>
    BY <1>2, <1>13 DEF StringFails, Match, Fail, state
  <2> QED BY <2>1, FailOutcome
<1>14. CASE pc = "block" /\ BlockContinues(m)
  <2>1. /\ at' = at + n /\ text' = text /\ pc' = pc /\ frames' = frames /\ pc \in Constructs
        /\ pos' = PosIn(text, at + n) /\ UNCHANGED <<markup, units>>
        /\ thread' = [thread EXCEPT !.acc = @ \o m.lexeme]
    BY <1>2, <1>14 DEF BlockContinues, Extend, ExtendLine, Match, MatchLine, Move, Continue,
       Constructs
  <2> QED BY <2>1, ExtendOutcome
<1>15. CASE pc = "block" /\ BlockOpens(m)
  <2>1. /\ at' = at + n /\ text' = text /\ pc' \in {"string", "block"}
        /\ frames' = <<thread.opening>> \o frames
        /\ pos' = PosIn(text, at + n) /\ UNCHANGED <<markup, units>>
        /\ thread' = [opening |-> RegionOf(m.lexeme), acc |-> thread.acc \o m.lexeme]
    BY <1>2, <1>15 DEF BlockOpens, Match, Move, Continue
  <2> QED BY <1>15, <2>1, NestOutcome
<1>16. CASE pc = "block" /\ BlockCloses(m)
  <2>0. m.clause = "close" /\ Synced(m.lexeme) = PosIn(text, at + n) /\ pc \in Constructs
    BY <1>2, <1>16 DEF BlockCloses, Constructs
  <2>1. CASE frames # << >>
    <3>1. /\ at' = at + n /\ text' = text /\ pc' = "block" /\ frames' = Tail(frames)
          /\ pos' = PosIn(text, at + n) /\ UNCHANGED <<markup, units>>
          /\ thread' = [opening |-> Head(frames), acc |-> thread.acc \o m.lexeme]
      BY <1>2, <1>16, <2>0, <2>1 DEF BlockCloses, ResumeBlock, Match, Move, Continue
    <3> QED BY <2>0, <2>1, <3>1, ResumeOutcome
  <2>2. CASE frames = << >>
    <3> DEFINE u == Token("block", thread.acc \o m.lexeme, ThreadRegion(Synced(m.lexeme)))
    <3>1. /\ at' = at + n /\ text' = text /\ pc' = "scan" /\ thread' = NoThread /\ frames' = << >>
          /\ pos' = PosIn(text, at + n) /\ units' = units /\ markup' = <<u>> \o markup
      BY <1>2, <1>16, <2>0, <2>2 DEF BlockCloses, Match, Push, Continue, streamVars
    <3>2. NestInv' /\ Base' = at'
      BY <1>2, <1>4, <3>1, PlainInv
    <3>3. UnitOf(text, Base, at', u)
      BY <2>0, <2>2, <3>1, ClosedUnit
    <3> HIDE DEF u
    <3> QED BY <3>1, <3>2, <3>3 DEF RuleOutcome, Pushes, RuleNames
  <2> QED BY <2>1, <2>2
<1>17. CASE pc = "line" /\ LineContinues(m)
  <2>1. /\ at' = at + n /\ text' = text /\ pc' = pc /\ frames' = frames /\ pc \in Constructs
        /\ pos' = PosIn(text, at + n) /\ UNCHANGED <<markup, units>>
        /\ thread' = [thread EXCEPT !.acc = @ \o m.lexeme]
    BY <1>2, <1>17 DEF LineContinues, Extend, Match, Move, Continue, Constructs
  <2> QED BY <2>1, ExtendOutcome
<1>18. CASE pc = "line" /\ LineCloses(m)
  <2>0. m.clause = "newline" /\ NewLine(pos, m.lexeme) = PosIn(text, at + n) /\ pc \in Constructs
        /\ frames = << >>
    BY <1>2, <1>18 DEF LineCloses, Constructs, NestInv
  <2> DEFINE u == Token("line", thread.acc \o m.lexeme, ThreadRegion(NewLine(pos, m.lexeme)))
  <2>1. /\ at' = at + n /\ text' = text /\ pc' = "scan" /\ thread' = NoThread /\ frames' = << >>
        /\ pos' = PosIn(text, at + n) /\ units' = units /\ markup' = <<u>> \o markup
    BY <1>2, <1>18, <2>0 DEF LineCloses, MatchLine, Push, Continue, streamVars
  <2>2. NestInv' /\ Base' = at'
    BY <1>2, <1>4, <2>1, PlainInv
  <2>3. UnitOf(text, Base, at', u)
    BY <2>0, <2>1, ClosedUnit
  <2> HIDE DEF u
  <2> QED BY <2>1, <2>2, <2>3 DEF RuleOutcome, Pushes, RuleNames
<1> QED
  BY <1>6, <1>7, <1>8, <1>9, <1>10, <1>11, <1>12, <1>13, <1>14, <1>15, <1>16, <1>17, <1>18
  DEF Rules

\* Every step of a rule has one of the four outcomes.
LEMMA ScanOutcome ==
    ASSUME PosInv, NestInv, Scanning
    PROVE  RuleOutcome
<1>1. CASE InitRule
  BY <1>1, InitOutcome
<1>2. ASSUME pc \in MatchRules, AtEof, ScanEof \/ Unterminated
      PROVE  RuleOutcome
  <2>0. pc # "failed" /\ at \in Nat /\ at = Len(text) /\ text \in Seq(ToSet(text))
    BY <1>2 DEF MatchRules, AtEof, NestInv
  <2>1. CASE ScanEof
    <3> DEFINE u == Token("eof", << >>, RegionOf(<< >>))
    <3>0. pc = "scan" /\ pc \notin Constructs /\ pc \in RuleNames
      BY <2>1 DEF ScanEof, Constructs, RuleNames
    <3>1. Base = at /\ pos = PosIn(text, at) /\ thread = NoThread /\ frames = << >>
      BY <2>0, <3>0 DEF NestInv, Base
    <3>2. Len(<< >>) = 0 /\ at + 0 = at
      BY <2>0
    <3>3. Synced(<< >>) = PosIn(text, at)
      BY <2>0, <3>1, <3>2 DEF Synced, ShiftBytes, Pos, PosIn
    <3>4. /\ at' = at /\ text' = text /\ pc' = caller /\ thread' = NoThread /\ frames' = << >>
          /\ pos' = PosIn(text, at) /\ markup' = << >>
          /\ units' = Enq([markup |-> markup, token |-> u], units)
      BY <2>1, <3>1, <3>2, <3>3 DEF ScanEof, Match, Enqueue, Return
    <3>5. NestInv' /\ Base' = at'
      <4>1. pc' \in (RuleNames \ Constructs) \union Waiting
        BY <3>0, <3>4 DEF PosInv, Waiting
      <4> QED BY <2>0, <3>4, <4>1, PlainInv
    <3>6. UnitOf(text, Base, at', u)
      <4>1. Written(u) = << >>
        BY DEF Written, Token
      <4>2. Part(text, at, at) = << >>
        <5>1. Part(text, at, at) \in Seq(ToSet(text)) /\ Len(Part(text, at, at)) = at - at
          <6>1. PICK a \in Nat : a = at /\ a <= a /\ a <= Len(text)
            BY <2>0
          <6>2. Part(text, a, a) \in Seq(ToSet(text)) /\ Len(Part(text, a, a)) = a - a
            BY <2>0, <6>1, PartIs, ZenonT(30)
          <6> QED BY <6>1, <6>2
        <5>2. Len(Part(text, at, at)) = 0
          BY <2>0, <5>1
        <5>3. PICK p \in Seq(ToSet(text)) : p = Part(text, at, at) /\ Len(p) = 0
          BY <5>1, <5>2
        <5> QED BY <5>3
      <4>3. u.region = Region(PosIn(text, at), PosIn(text, at))
        BY <3>1, <3>3 DEF Token, RegionOf
      <4> QED BY <2>0, <3>1, <3>4, <4>1, <4>2, <4>3 DEF UnitOf
    <3> HIDE DEF u
    <3> QED BY <3>4, <3>5, <3>6 DEF RuleOutcome, Enqueues
  <2>2. CASE Unterminated
    <3>1. /\ at' \in 0..Len(text) /\ text' = text /\ pc' = "failed"
          /\ UNCHANGED <<thread, frames, markup, units>>
      BY <2>0, <2>2 DEF Unterminated, Fail, state
    <3> QED BY <3>1, FailOutcome
  <2> QED BY <1>2, <2>1, <2>2
<1>3. ASSUME pc \in MatchRules, ~AtEof, Rules(Found)
      PROVE  RuleOutcome
  <2>1. text \in Seq(ToSet(text)) /\ at \in 0..Len(text)
    BY DEF NestInv
  <2>2. PICK n : /\ Lexed(text, at, Found, n)
                 /\ MatchesIn(pc, Found.clause, Found.lexeme)
    BY <1>3, <2>1, FoundMatch
  <2>3. pc = "scan" /\ Found.clause = "bytes" => Matches("bytes", Found.lexeme)
    BY <2>2 DEF MatchesIn
  <2> QED BY <1>3, <2>2, <2>3, MatchOutcome
<1> QED
  BY <1>1, <1>2, <1>3 DEF Scanning, MatchRules

-----------------------------------------------------------------------------
(* The concatenation of a sequence of sequences.                           *)

\* f[i] is the concatenation of the first i sequences of s.
Runs(s, n, f) ==
    /\ f = [i \in 1..n |-> f[i]]
    /\ \A i \in 1..n : f[i] = IF i = 1 THEN s[i] ELSE f[i - 1] \o s[i]

\* The concatenations are determined: otherwise there would be a least one that differs.
LEMMA RunsAgree ==
    ASSUME NEW s, NEW n \in Nat, NEW k \in Nat, NEW f, NEW g, Runs(s, n, f), Runs(s, k, g)
    PROVE  \A i \in 1..n : i \in 1..k => f[i] = g[i]
<1> DEFINE T == {i \in 1..n : i \in 1..k /\ f[i] # g[i]}
<1>1. SUFFICES ASSUME T # {}
               PROVE  FALSE
  OBVIOUS
<1>2. PICK i \in T : \A j \in T : i <= j
  <2>1. T \subseteq Nat
    OBVIOUS
  <2> QED BY <1>1, <2>1, LeastOf
<1>3. i \in 1..n /\ i \in 1..k /\ f[i] # g[i]
  BY <1>2
<1>4. CASE i = 1
  BY <1>3, <1>4 DEF Runs
<1>5. CASE i # 1
  <2>1. i - 1 \in 1..n /\ i - 1 \in 1..k /\ ~(i <= i - 1)
    BY <1>3, <1>5
  <2>2. f[i - 1] = g[i - 1]
    BY <1>2, <2>1
  <2> QED BY <1>3, <1>5, <2>2, ZenonT(30) DEF Runs
<1> QED BY <1>4, <1>5

\* The concatenations of one sequence more.
LEMMA RunsExtend ==
    ASSUME NEW S, NEW s \in Seq(Seq(S)), NEW n \in Nat, n + 1 <= Len(s), NEW f,
           Runs(s, n, f), \A i \in 1..n : f[i] \in Seq(S)
    PROVE  \E g : Runs(s, n + 1, g) /\ \A i \in 1..(n + 1) : g[i] \in Seq(S)
<1> DEFINE g == [i \in 1..(n + 1) |->
                   IF i \in 1..n THEN f[i] ELSE IF n = 0 THEN s[1] ELSE f[n] \o s[n + 1]]
<1>1. \A i \in 1..(n + 1) : s[i] \in Seq(S)
  OBVIOUS
<1>2. \A i \in 1..n : g[i] = f[i] /\ g[i] \in Seq(S)
  OBVIOUS
<1>3. g[n + 1] = (IF n = 0 THEN s[1] ELSE f[n] \o s[n + 1]) /\ n + 1 \notin 1..n
  OBVIOUS
<1>4. g[n + 1] \in Seq(S)
  <2>1. CASE n = 0
    BY <1>1, <1>3, <2>1
  <2>2. CASE n # 0
    <3>1. f[n] \in Seq(S) /\ s[n + 1] \in Seq(S)
      BY <1>1, <2>2
    <3> QED BY <1>3, <2>2, <3>1
  <2> QED BY <2>1, <2>2
<1>5. \A i \in 1..(n + 1) : g[i] \in Seq(S)
  <2>1. \A i \in 1..(n + 1) : i \in 1..n \/ i = n + 1
    OBVIOUS
  <2> HIDE DEF g
  <2> QED BY <1>2, <1>4, <2>1
<1>6. ASSUME NEW i \in 1..(n + 1)
      PROVE  g[i] = IF i = 1 THEN s[i] ELSE g[i - 1] \o s[i]
  <2>1. CASE i \in 1..n
    <3>1. i # 1 => i - 1 \in 1..n
      BY <2>1
    <3>2. f[i] = IF i = 1 THEN s[i] ELSE f[i - 1] \o s[i]
      BY <2>1 DEF Runs
    <3> HIDE DEF g
    <3> QED BY <1>2, <2>1, <3>1, <3>2
  <2>2. CASE i \notin 1..n
    <3>1. i = n + 1
      BY <2>2
    <3>2. CASE n = 0
      <4>1. i = 1 /\ g[n + 1] = s[1]
        BY <1>3, <3>1, <3>2
      <4> HIDE DEF g
      <4> QED BY <3>1, <4>1
    <3>3. CASE n # 0
      <4>1. i # 1 /\ i - 1 = n /\ n \in 1..n
        BY <3>1, <3>3
      <4>2. g[n] = f[n] /\ g[n + 1] = f[n] \o s[n + 1]
        BY <1>2, <1>3, <3>3, <4>1
      <4> HIDE DEF g
      <4> QED BY <3>1, <4>1, <4>2
    <3> QED BY <3>2, <3>3
  <2> QED BY <2>1, <2>2
<1>7. g = [i \in 1..(n + 1) |-> g[i]]
  OBVIOUS
<1> QED
  <2> HIDE DEF g
  <2> QED BY <1>5, <1>6, <1>7 DEF Runs

\* There are concatenations: otherwise there would be a least number of sequences
\* that has none.
LEMMA RunsExist ==
    ASSUME NEW S, NEW s \in Seq(Seq(S)), NEW n \in Nat, n <= Len(s)
    PROVE  \E f : Runs(s, n, f) /\ \A i \in 1..n : f[i] \in Seq(S)
<1> DEFINE Good(k) == \E f : Runs(s, k, f) /\ \A i \in 1..k : f[i] \in Seq(S)
           T == {k \in 0..n : ~Good(k)}
<1>1. SUFFICES ASSUME T # {}
               PROVE  FALSE
  <2> HIDE DEF Good
  <2>1. n \in 0..n
    OBVIOUS
  <2>2. T = {} => Good(n)
    BY <2>1
  <2> QED BY <2>2 DEF Good
<1>2. PICK k \in T : \A j \in T : k <= j
  <2>1. T \subseteq Nat
    OBVIOUS
  <2> QED BY <1>1, <2>1, LeastOf
<1>3. k \in 0..n /\ ~Good(k)
  BY <1>2
<1>4. CASE k = 0
  <2>1. 1..0 = {}
    OBVIOUS
  <2>2. Runs(s, 0, [i \in 1..0 |-> 0])
    BY <2>1 DEF Runs
  <2> QED BY <1>3, <1>4, <2>1, <2>2
<1>5. CASE k # 0
  <2>1. k - 1 \in 0..n /\ ~(k <= k - 1) /\ k - 1 \in Nat /\ (k - 1) + 1 = k /\ k <= Len(s)
    BY <1>3, <1>5
  <2>2. Good(k - 1)
    <3> HIDE DEF Good
    <3> QED BY <1>2, <2>1
  <2>3. PICK f : Runs(s, k - 1, f) /\ \A i \in 1..(k - 1) : f[i] \in Seq(S)
    BY <2>2
  <2>4. \E g : Runs(s, (k - 1) + 1, g) /\ \A i \in 1..((k - 1) + 1) : g[i] \in Seq(S)
    BY <2>1, <2>3, RunsExtend
  <2> QED BY <1>3, <2>1, <2>4
<1> QED BY <1>4, <1>5

\* FlattenSeq gives the last of them.
LEMMA FlattenRuns ==
    ASSUME NEW S, NEW s \in Seq(Seq(S)), s # << >>
    PROVE  \E f : /\ Runs(s, Len(s), f) /\ FlattenSeq(s) = f[Len(s)]
                  /\ \A i \in 1..Len(s) : f[i] \in Seq(S)
<1> DEFINE flatten == CHOOSE g : g = [i \in 1..Len(s) |->
                                        IF i = 1 THEN s[i] ELSE g[i - 1] \o s[i]]
<1>1. PICK f : Runs(s, Len(s), f) /\ \A i \in 1..Len(s) : f[i] \in Seq(S)
  BY RunsExist
<1>2. f = [i \in 1..Len(s) |-> IF i = 1 THEN s[i] ELSE f[i - 1] \o s[i]]
  BY <1>1 DEF Runs
<1>3. flatten = [i \in 1..Len(s) |-> IF i = 1 THEN s[i] ELSE flatten[i - 1] \o s[i]]
  BY <1>2
<1>4. FlattenSeq(s) = flatten[Len(s)]
  <2>1. Len(s) # 0
    OBVIOUS
  <2> QED BY <2>1 DEF FlattenSeq
<1> HIDE DEF flatten
<1>5. Runs(s, Len(s), flatten)
  BY <1>3 DEF Runs
<1>6. \A i \in 1..Len(s) : flatten[i] = f[i]
  BY <1>1, <1>5, RunsAgree
<1> QED BY <1>1, <1>4, <1>5, <1>6

\* It is a sequence, and a sequence more is appended to it.
LEMMA FlattenAppend ==
    ASSUME NEW S, NEW s \in Seq(Seq(S)), NEW x \in Seq(S)
    PROVE  /\ FlattenSeq(s) \in Seq(S)
           /\ FlattenSeq(Append(s, x)) = FlattenSeq(s) \o x
<1>1. PICK n \in Nat : n = Len(s)
  OBVIOUS
<1>2. PICK a : a = Append(s, x)
  OBVIOUS
<1>3. /\ a \in Seq(Seq(S)) /\ a # << >> /\ Len(a) = n + 1 /\ a[n + 1] = x
      /\ \A i \in 1..n : a[i] = s[i]
  <2>1. \A T : \A r \in Seq(T) : \A e \in T :
           /\ Append(r, e) \in Seq(T) /\ Len(Append(r, e)) = Len(r) + 1
           /\ Append(r, e)[Len(r) + 1] = e
           /\ \A i \in 1..Len(r) : Append(r, e)[i] = r[i]
    OBVIOUS
  <2>2. Len(a) # 0 => a # << >>
    OBVIOUS
  <2> QED BY <1>1, <1>2, <2>1, <2>2
<1>4. PICK g : Runs(a, n + 1, g) /\ FlattenSeq(a) = g[n + 1]
  BY <1>3, FlattenRuns
<1>5. CASE s = << >>
  <2>1. n = 0 /\ FlattenSeq(s) = << >>
    BY <1>1, <1>5 DEF FlattenSeq
  <2>2. g[1] = x
    <3>1. 1 \in 1..(n + 1) /\ n + 1 = 1
      BY <2>1
    <3> QED BY <1>3, <1>4, <3>1 DEF Runs
  <2>3. << >> \o x = x /\ << >> \in Seq(S)
    OBVIOUS
  <2> QED BY <1>2, <1>4, <2>1, <2>2, <2>3
<1>6. CASE s # << >>
  <2>1. PICK f : Runs(s, n, f) /\ FlattenSeq(s) = f[n] /\ \A i \in 1..n : f[i] \in Seq(S)
    BY <1>1, <1>6, FlattenRuns
  <2>2. n \in 1..n /\ n # 0
    BY <1>1, <1>6
  <2>3. Runs(s, n, g) \/ \A i \in 1..n : g[i] = IF i = 1 THEN s[i] ELSE g[i - 1] \o s[i]
    <3>1. ASSUME NEW i \in 1..n
          PROVE  g[i] = IF i = 1 THEN s[i] ELSE g[i - 1] \o s[i]
      <4>1. i \in 1..(n + 1)
        OBVIOUS
      <4> QED BY <1>3, <1>4, <4>1 DEF Runs
    <3> QED BY <3>1
  <2>4. PICK h : h = [i \in 1..n |-> g[i]]
    OBVIOUS
  <2>5. Runs(s, n, h)
    <3>1. \A i \in 1..n : h[i] = g[i]
      BY <2>4
    <3>2. \A i \in 1..n : i # 1 => i - 1 \in 1..n
      OBVIOUS
    <3>3. ASSUME NEW i \in 1..n
          PROVE  h[i] = IF i = 1 THEN s[i] ELSE h[i - 1] \o s[i]
      <4>1. i \in 1..(n + 1)
        OBVIOUS
      <4>2. g[i] = IF i = 1 THEN a[i] ELSE g[i - 1] \o a[i]
        BY <1>4, <4>1 DEF Runs
      <4>3. a[i] = s[i] /\ h[i] = g[i] /\ (i # 1 => h[i - 1] = g[i - 1])
        BY <1>3, <3>1, <3>2
      <4> QED BY <4>2, <4>3
    <3> QED BY <2>4, <3>1, <3>3 DEF Runs
  <2>6. h[n] = f[n] /\ h[n] = g[n]
    BY <2>1, <2>2, <2>4, <2>5, RunsAgree
  <2>7. g[n + 1] = g[n] \o x
    <3>1. n + 1 \in 1..(n + 1) /\ n + 1 # 1 /\ (n + 1) - 1 = n
      BY <2>2
    <3>2. g[n + 1] = g[(n + 1) - 1] \o a[n + 1]
      BY <1>4, <3>1 DEF Runs
    <3> QED BY <1>3, <3>1, <3>2
  <2> QED BY <1>2, <1>4, <2>1, <2>2, <2>6, <2>7
<1> QED BY <1>5, <1>6

-----------------------------------------------------------------------------
(* The text of the units, and where they lie.                              *)

\* The token stream leaves the text alone, and runs while nothing is open.
LEMMA StreamOutcome ==
    ASSUME NestInv, pc \in Waiting, pc' \in Waiting \union {"init", "scan", "failed"},
           UNCHANGED <<text, at, pos, thread, frames>>
    PROVE  NestInv' /\ Base = at /\ Base' = at
<1>1. pc \notin Constructs \union {"failed"} /\ pc' \notin Constructs
  BY DEF Waiting, Constructs
<1>2. thread = NoThread /\ frames = << >>
  BY <1>1 DEF NestInv
<1>3. NestInv'
  BY <1>1, <1>2 DEF NestInv
<1> QED BY <1>1, <1>3 DEF Base

\* Each action of the stream as such a step.
StreamStep ==
    /\ pc \in Waiting /\ pc' \in Waiting \union {"init", "scan", "failed"}
    /\ UNCHANGED <<text, at, pos, thread, frames, markup>>

\* Every action of the stream is such a step.
LEMMA StreamSteps ==
    ASSUME Read \/ Stream
    PROVE  StreamStep
<1>1. CASE Read
  BY <1>1 DEF Read, streamUnchanged, state, StreamStep, Waiting
<1>2. CASE ReadScans
  BY <1>2 DEF ReadScans, EnterScan, streamUnchanged, state, StreamStep, Waiting
<1>3. CASE ReadDequeues
  BY <1>3 DEF ReadDequeues, EnterScan, streamUnchanged, StreamStep, Waiting
<1>4. CASE Check
  BY <1>4 DEF Check, streamUnchanged, StreamStep, Waiting
<1>5. CASE Deliver
  BY <1>5 DEF Deliver, streamUnchanged, state, StreamStep, Waiting
<1> QED
  BY <1>1, <1>2, <1>3, <1>4, <1>5 DEF Stream

\* What is open is followed by every step.
LEMMA NestStep ==
    ASSUME PosInv, NestInv, [Next]_vars
    PROVE  NestInv'
<1>1. CASE Scanning
  BY <1>1, ScanOutcome DEF RuleOutcome
<1>2. CASE Read \/ Stream
  BY <1>2, StreamSteps, StreamOutcome DEF StreamStep
<1>3. CASE UNCHANGED vars
  BY <1>3 DEF vars, state, NestInv, Openings, Base
<1> QED
  BY <1>1, <1>2, <1>3 DEF Next

\* An error is what the lexer has failed with.
ErrInv ==
    /\ caller \in {"none", "read", "check"}
    /\ (pc = "failed") = (error # NoError)

\* What the rules leave to the stream: who has called them, and the log; and an
\* exception is raised when they fail.
RuleControls ==
    /\ caller' = caller /\ log' = log
    /\ \/ error' = error /\ pc' \in RuleNames \union {caller}
       \/ pc' = "failed" /\ \E k, r : error' = [kind |-> k, region |-> r]

\* So do all of them.
LEMMA ScanControls ==
    ASSUME Scanning
    PROVE  RuleControls
<1>1. \A rule \in RuleNames : Continue(rule) => RuleControls
  BY DEF Continue, streamVars, RuleControls
<1>2. Return => RuleControls
  BY DEF Return, RuleControls
<1>3. /\ caller' = caller /\ log' = log /\ pc' = "failed"
      /\ \E k, r : error' = [kind |-> k, region |-> r]
      => RuleControls
  BY DEF RuleControls
<1>4. /\ "scan" \in RuleNames /\ "string" \in RuleNames /\ "block" \in RuleNames
      /\ "line" \in RuleNames
  BY DEF RuleNames
<1>5. CASE InitRule
  <2>1. CASE pc' = "scan"
    BY <1>1, <1>4, <1>5, <2>1 DEF InitRule, Fail
  <2>2. CASE pc' # "scan"
    BY <1>3, <1>5, <2>2 DEF InitRule, Fail, Continue, streamVars
  <2> QED BY <2>1, <2>2
<1>6. CASE ScanEof
  BY <1>2, <1>6 DEF ScanEof
<1>7. CASE Unterminated
  BY <1>3, <1>7 DEF Unterminated, Fail, streamVars
<1>8. ASSUME NEW m, Rules(m)
      PROVE  RuleControls
  <2>1. CASE ScanNewline(m) \/ ScanBlank(m) \/ LineCloses(m)
    BY <1>1, <1>4, <2>1 DEF ScanNewline, ScanBlank, LineCloses
  <2>2. CASE ScanToken(m)
    BY <1>2, <2>2 DEF ScanToken
  <2>3. CASE ScanError(m) \/ StringFails(m)
    BY <1>3, <2>3 DEF ScanError, StringFails, Fail, streamVars
  <2>4. CASE ScanOpening(m) \/ BlockOpens(m)
    <3>1. m.clause \in RuleNames
      BY <1>4, <2>4 DEF ScanOpening, BlockOpens
    <3> QED BY <1>1, <2>4, <3>1 DEF ScanOpening, BlockOpens
  <2>5. CASE StringContinues(m) \/ BlockContinues(m) \/ LineContinues(m)
    BY <1>1, <1>4, <2>5 DEF StringContinues, BlockContinues, LineContinues
  <2>6. CASE StringCloses(m)
    BY <1>1, <1>2, <1>4, <2>6 DEF StringCloses, ResumeBlock
  <2>7. CASE BlockCloses(m)
    BY <1>1, <1>4, <2>7 DEF BlockCloses, ResumeBlock
  <2> QED BY <1>8, <2>1, <2>2, <2>3, <2>4, <2>5, <2>6, <2>7 DEF Rules
<1> QED BY <1>5, <1>6, <1>7, <1>8 DEF Scanning

\* An error is raised when the lexer fails, and only then.
LEMMA ErrStep ==
    ASSUME PosInv, ErrInv, [Next]_vars
    PROVE  ErrInv'
<1> USE DEF ErrInv
<1>1. \A k, r : [kind |-> k, region |-> r] # NoError
  BY DEF NoError
<1>2. CASE Scanning
  <2>1. pc \in RuleNames /\ caller \in {"read", "check"} /\ error = NoError
    BY <1>2 DEF PosInv, Scanning, InitRule, RuleNames
  <2> QED BY <1>1, <1>2, <2>1, ScanControls DEF RuleNames, RuleControls
<1>3. CASE Read
  BY <1>3 DEF Read, streamVars
<1>4. CASE ReadScans
  BY <1>4 DEF ReadScans, EnterScan
<1>5. CASE ReadDequeues
  BY <1>5 DEF ReadDequeues, EnterScan
<1>6. CASE Check
  BY <1>1, <1>6 DEF Check, streamVars
<1>7. CASE Deliver
  BY <1>7 DEF Deliver
<1>8. CASE UNCHANGED vars
  BY <1>8 DEF vars, streamVars
<1> QED
  BY <1>2, <1>3, <1>4, <1>5, <1>6, <1>7, <1>8 DEF Next, Stream

\* Exact, for a text.
ExactIn(t, u) ==
    LET first == u.region.start.cnum
    IN  /\ first + Len(Written(u)) <= Len(t)
        /\ u.region = Region(PosIn(t, first), PosIn(t, first + Len(Written(u))))
        /\ SubSeq(t, first + 1, first + Len(Written(u))) = Written(u)

UnitMade(t, u) == ExactIn(t, u) /\ Written(u) \in Seq(ToSet(t))
MarkupMade(t, mk) == \E S : mk \in Seq(S) /\ \A u \in S : UnitMade(t, u)
ItemMade(t, x) == MarkupMade(t, x.markup) /\ UnitMade(t, x.token)
ItemsMade(t, us) == \E S : us \in Seq(S) /\ \A x \in S : ItemMade(t, x)

\* The text of markup, and of tokens with their markup.
MarkupText(mk) == FlattenSeq([i \in DOMAIN mk |-> Written(Reverse(mk)[i])])
ItemsText(us) == FlattenSeq([i \in DOMAIN us |-> TextOf(us[i])])

\* The part of a text that a rule has taken lies where its region says.
LEMMA UnitExact ==
    ASSUME NEW t, t \in Seq(ToSet(t)), NEW b, NEW e, NEW u, UnitOf(t, b, e, u)
    PROVE  UnitMade(t, u)
<1>1. b \in Nat /\ e \in Nat /\ b <= e /\ e <= Len(t)
  BY DEF UnitOf
<1>2. Part(t, b, e) \in Seq(ToSet(t)) /\ Len(Part(t, b, e)) = e - b
  BY <1>1, PartIs
<1>3. Written(u) = Part(t, b, e) /\ u.region = Region(PosIn(t, b), PosIn(t, e))
  BY DEF UnitOf
<1>4. u.region.start.cnum = b
  BY <1>3 DEF Region, PosIn
<1>5. b + Len(Written(u)) = e
  BY <1>1, <1>2, <1>3
<1>6. ExactIn(t, u)
  BY <1>1, <1>3, <1>4, <1>5 DEF ExactIn, Part
<1> QED BY <1>2, <1>3, <1>6 DEF UnitMade

\* A function on 1..n+1 is a sequence.
LEMMA Listed ==
    ASSUME NEW U, NEW n \in Nat, NEW f \in [1..(n + 1) -> U]
    PROVE  f \in Seq(U) /\ Len(f) = n + 1
<1>1. \A m \in Nat : \A g \in [1..m -> U] : g \in Seq(U) /\ Len(g) = m
  OBVIOUS
<1>2. n + 1 \in Nat
  OBVIOUS
<1> QED BY <1>1, <1>2

\* The text of markup is a sequence of characters, and pushing a unit appends
\* its text.
LEMMA MarkupGrows ==
    ASSUME NEW t, NEW mk, MarkupMade(t, mk), NEW u, UnitMade(t, u)
    PROVE  /\ MarkupMade(t, <<u>> \o mk)
           /\ MarkupText(mk) \in Seq(ToSet(t))
           /\ MarkupText(<<u>> \o mk) = MarkupText(mk) \o Written(u)
<1>1. PICK S : mk \in Seq(S) /\ \A v \in S : UnitMade(t, v)
  BY DEF MarkupMade
<1>2. PICK C : C = ToSet(t)
  OBVIOUS
<1> DEFINE T == S \union {u}
<1>3. /\ mk \in Seq(T) /\ u \in T /\ <<u>> \o mk \in Seq(T)
      /\ \A v \in T : UnitMade(t, v) /\ Written(v) \in Seq(C)
  BY <1>1, <1>2 DEF UnitMade
<1> HIDE DEF T
<1>4. PICK n \in Nat : n = Len(mk)
  BY <1>3
<1>5. PICK r \in Seq(T) : r = Reverse(mk) /\ Len(r) = n
  BY <1>3, <1>4, ReverseSeq
<1>6. Reverse(<<u>> \o mk) = Append(r, u) /\ Len(<<u>> \o mk) = n + 1
  BY <1>3, <1>4, <1>5, ReverseFirst
<1>7. DOMAIN mk = 1..n /\ DOMAIN (<<u>> \o mk) = 1..(n + 1)
  BY <1>3, <1>4, <1>6
<1> DEFINE old == [i \in 1..n |-> Written(r[i])]
           new == [i \in 1..(n + 1) |-> Written(Append(r, u)[i])]
<1>8. old \in Seq(Seq(C)) /\ Len(old) = n
  <2>1. \A i \in 1..n : Written(r[i]) \in Seq(C)
    BY <1>3, <1>5
  <2> QED BY <2>1
<1>9. new = Append(old, Written(u))
  <2>1. \A i \in 1..(n + 1) : Append(r, u)[i] = IF i = n + 1 THEN u ELSE r[i]
    BY <1>3, <1>5
  <2>2. new \in Seq(Seq(C)) /\ Len(new) = n + 1
    <3>1. \A i \in 1..(n + 1) : Written(Append(r, u)[i]) \in Seq(C)
      <4>1. \A i \in 1..(n + 1) : i # n + 1 => i \in 1..n
        OBVIOUS
      <4> QED BY <1>3, <1>5, <2>1, <4>1
    <3>2. new \in [1..(n + 1) -> Seq(C)]
      BY <3>1
    <3> HIDE DEF new
    <3> QED BY <3>2, Listed
  <2>3. Append(old, Written(u)) \in Seq(Seq(C)) /\ Len(Append(old, Written(u))) = n + 1
        /\ Append(old, Written(u))[n + 1] = Written(u)
        /\ \A i \in 1..n : Append(old, Written(u))[i] = old[i]
    <3>1. \A U : \A s \in Seq(U) : \A x \in U :
            /\ Append(s, x) \in Seq(U) /\ Len(Append(s, x)) = Len(s) + 1
            /\ Append(s, x)[Len(s) + 1] = x
            /\ \A i \in 1..Len(s) : Append(s, x)[i] = s[i]
      OBVIOUS
    <3>2. Written(u) \in Seq(C)
      BY <1>3
    <3> QED BY <1>8, <3>1, <3>2
  <2>4. \A i \in 1..n : old[i] = Written(r[i])
    OBVIOUS
  <2>5. \A i \in 1..(n + 1) : new[i] = Written(Append(r, u)[i])
    OBVIOUS
  <2> HIDE DEF old, new
  <2>6. \A i \in 1..(n + 1) : new[i] = Append(old, Written(u))[i]
    <3>1. \A i \in 1..(n + 1) : i # n + 1 => i \in 1..n
      OBVIOUS
    <3> QED BY <2>1, <2>3, <2>4, <2>5, <3>1
  <2> QED BY <2>2, <2>3, <2>6, SameSeq
<1>10. MarkupText(mk) = FlattenSeq(old)
  BY <1>5, <1>7 DEF MarkupText
<1>11. MarkupText(<<u>> \o mk) = FlattenSeq(new)
  BY <1>6, <1>7 DEF MarkupText
<1> HIDE DEF old, new
<1>12. Written(u) \in Seq(C)
  BY <1>3
<1>13. FlattenSeq(old) \in Seq(C) /\ FlattenSeq(new) = FlattenSeq(old) \o Written(u)
  BY <1>8, <1>9, <1>12, FlattenAppend
<1>14. MarkupMade(t, <<u>> \o mk)
  BY <1>3 DEF MarkupMade
<1> QED BY <1>2, <1>10, <1>11, <1>13, <1>14

\* No markup, no text.
LEMMA NoMarkup ==
    ASSUME NEW t
    PROVE  /\ MarkupMade(t, << >>) /\ MarkupText(<< >>) = << >>
           /\ ItemsMade(t, << >>) /\ ItemsText(<< >>) = << >>
<1>1. << >> \in Seq({}) /\ DOMAIN << >> = {}
  OBVIOUS
<1>2. \A f : DOMAIN << >> = {}
  OBVIOUS
<1>3. [i \in DOMAIN << >> |-> Written(Reverse(<< >>)[i])] = << >>
  OBVIOUS
<1>4. [i \in DOMAIN << >> |-> TextOf(<< >>[i])] = << >>
  OBVIOUS
<1>5. FlattenSeq(<< >>) = << >>
  BY DEF FlattenSeq
<1> QED BY <1>1, <1>3, <1>4, <1>5 DEF MarkupMade, MarkupText, ItemsMade, ItemsText

\* The same for the tokens with their markup.
LEMMA ItemText ==
    ASSUME NEW t, NEW x, ItemMade(t, x)
    PROVE  /\ TextOf(x) \in Seq(ToSet(t))
           /\ MarkupText(x.markup) \in Seq(ToSet(t)) /\ Written(x.token) \in Seq(ToSet(t))
           /\ TextOf(x) = MarkupText(x.markup) \o Written(x.token)
<1>1. MarkupMade(t, x.markup) /\ UnitMade(t, x.token) /\ Written(x.token) \in Seq(ToSet(t))
  BY DEF ItemMade, UnitMade
<1>2. MarkupText(x.markup) \in Seq(ToSet(t))
  BY <1>1, MarkupGrows
<1>3. TextOf(x) = MarkupText(x.markup) \o Written(x.token)
  BY DEF TextOf, MarkupText
<1> QED BY <1>1, <1>2, <1>3

\* A token more with its markup, and its text is appended.
LEMMA ItemsGrow ==
    ASSUME NEW t, NEW us, ItemsMade(t, us), NEW x, ItemMade(t, x)
    PROVE  /\ ItemsMade(t, Append(us, x))
           /\ ItemsText(us) \in Seq(ToSet(t))
           /\ ItemsText(Append(us, x)) = ItemsText(us) \o TextOf(x)
<1>1. PICK S : us \in Seq(S) /\ \A v \in S : ItemMade(t, v)
  BY DEF ItemsMade
<1>2. PICK C : C = ToSet(t)
  OBVIOUS
<1> DEFINE T == S \union {x}
<1>3. /\ us \in Seq(T) /\ x \in T /\ Append(us, x) \in Seq(T)
      /\ \A v \in T : ItemMade(t, v)
  BY <1>1
<1> HIDE DEF T
<1>a. \A v \in T : TextOf(v) \in Seq(C)
  BY <1>2, <1>3, ItemText
<1>4. PICK n \in Nat : n = Len(us)
  BY <1>3
<1>7. DOMAIN us = 1..n /\ DOMAIN Append(us, x) = 1..(n + 1)
      /\ \A i \in 1..(n + 1) : Append(us, x)[i] = IF i = n + 1 THEN x ELSE us[i]
  BY <1>3, <1>4
<1> DEFINE old == [i \in 1..n |-> TextOf(us[i])]
           new == [i \in 1..(n + 1) |-> TextOf(Append(us, x)[i])]
<1>b. \A i \in 1..(n + 1) : i # n + 1 => i \in 1..n
  OBVIOUS
<1>8. old \in Seq(Seq(C)) /\ Len(old) = n
  <2>1. \A i \in 1..n : TextOf(us[i]) \in Seq(C)
    BY <1>3, <1>4, <1>a
  <2> QED BY <2>1
<1>9. new = Append(old, TextOf(x))
  <2>2. new \in Seq(Seq(C)) /\ Len(new) = n + 1
    <3>1. \A i \in 1..(n + 1) : TextOf(Append(us, x)[i]) \in Seq(C)
      BY <1>3, <1>4, <1>7, <1>a, <1>b
    <3>2. new \in [1..(n + 1) -> Seq(C)]
      BY <3>1
    <3> HIDE DEF new
    <3> QED BY <3>2, Listed
  <2>3. Append(old, TextOf(x)) \in Seq(Seq(C)) /\ Len(Append(old, TextOf(x))) = n + 1
        /\ Append(old, TextOf(x))[n + 1] = TextOf(x)
        /\ \A i \in 1..n : Append(old, TextOf(x))[i] = old[i]
    <3>1. \A U : \A s \in Seq(U) : \A y \in U :
            /\ Append(s, y) \in Seq(U) /\ Len(Append(s, y)) = Len(s) + 1
            /\ Append(s, y)[Len(s) + 1] = y
            /\ \A i \in 1..Len(s) : Append(s, y)[i] = s[i]
      OBVIOUS
    <3>2. TextOf(x) \in Seq(C)
      BY <1>3, <1>a
    <3> QED BY <1>8, <3>1, <3>2
  <2>4. \A i \in 1..n : old[i] = TextOf(us[i])
    OBVIOUS
  <2>5. \A i \in 1..(n + 1) : new[i] = TextOf(Append(us, x)[i])
    OBVIOUS
  <2> HIDE DEF old, new
  <2>6. \A i \in 1..(n + 1) : new[i] = Append(old, TextOf(x))[i]
    BY <1>7, <1>b, <2>3, <2>4, <2>5
  <2> QED BY <2>2, <2>3, <2>6, SameSeq
<1>10. ItemsText(us) = FlattenSeq(old)
  BY <1>7 DEF ItemsText
<1>11. ItemsText(Append(us, x)) = FlattenSeq(new)
  BY <1>7 DEF ItemsText
<1> HIDE DEF old, new
<1>12. TextOf(x) \in Seq(C)
  BY <1>3, <1>a
<1>13. FlattenSeq(old) \in Seq(C) /\ FlattenSeq(new) = FlattenSeq(old) \o TextOf(x)
  BY <1>8, <1>9, <1>12, FlattenAppend
<1>14. ItemsMade(t, Append(us, x))
  BY <1>3 DEF ItemsMade
<1> QED BY <1>2, <1>10, <1>11, <1>13, <1>14

\* All that has been scanned is exact, and makes up the text up to Base.
TextInv ==
    /\ \E S : log \in Seq(S)
    /\ ItemsMade(text, Units) /\ MarkupMade(text, markup)
    /\ pc # "failed" => ItemsText(Units) \o MarkupText(markup) = Part(text, 0, Base)

\* What the queue holds when it holds one unit.
LEMMA OneQueued ==
    /\ Contents(EmptyQueue) = << >>
    /\ \A x : Contents(Enq(x, EmptyQueue)) = <<x>>
    /\ \A q : HoldsOne(q) => /\ Contents(q) = <<Deq(q).item>>
                             /\ Contents(Peek(q).queue) = Contents(q)
                             /\ Deq(q).queue = EmptyQueue
<1>1. Reverse(<< >>) = << >> /\ << >> \o << >> = << >>
  BY DEF Reverse
<1>2. Contents(EmptyQueue) = << >>
  BY <1>1 DEF Contents, EmptyQueue
<1>3. ASSUME NEW u
      PROVE  Reverse(<<u>>) = <<u>> /\ <<u>> \o << >> = <<u>> /\ << >> \o <<u>> = <<u>>
  BY DEF Reverse
<1>4. ASSUME NEW u
      PROVE  /\ Contents([rear |-> <<u>>, front |-> << >>]) = <<u>>
             /\ Contents([rear |-> << >>, front |-> <<u>>]) = <<u>>
  <2>1. Contents([rear |-> <<u>>, front |-> << >>]) = << >> \o Reverse(<<u>>)
    BY DEF Contents
  <2>2. Contents([rear |-> << >>, front |-> <<u>>]) = <<u>> \o Reverse(<< >>)
    BY DEF Contents
  <2> QED BY <1>1, <1>3, <2>1, <2>2
<1>5. ASSUME NEW x
      PROVE  Contents(Enq(x, EmptyQueue)) = <<x>>
  <2>1. <<x>> \o << >> = <<x>>
    BY <1>3
  <2>2. Enq(x, EmptyQueue) = [rear |-> <<x>>, front |-> << >>]
    BY <2>1 DEF Enq, EmptyQueue
  <2> QED BY <1>4, <2>2
<1>6. ASSUME NEW q, HoldsOne(q)
      PROVE  /\ Contents(q) = <<Deq(q).item>> /\ Contents(Peek(q).queue) = Contents(q)
             /\ Deq(q).queue = EmptyQueue
  <2>1. PICK u : \/ q = [rear |-> <<u>>, front |-> << >>]
                 \/ q = [rear |-> << >>, front |-> <<u>>]
    BY <1>6 DEF HoldsOne
  <2>2. Reverse(<<u>>) = <<u>>
    BY <1>3
  <2>3. WithFront(q) = [rear |-> << >>, front |-> <<u>>]
    BY <2>1, <2>2 DEF WithFront
  <2>4. Deq(q).item = u /\ Peek(q).queue = [rear |-> << >>, front |-> <<u>>]
    BY <2>3 DEF Deq, Peek
  <2>5. Contents(q) = <<u>>
    BY <1>4, <2>1
  <2> QED BY <1>4, <1>6, <2>4, <2>5, SmallQueues
<1> QED BY <1>2, <1>5, <1>6

\* The unit u is what follows the tokens us and the markup mk.
Follows(t, us, mk, b, u, e) ==
    /\ t \in Seq(ToSet(t)) /\ ItemsMade(t, us) /\ MarkupMade(t, mk)
    /\ UnitOf(t, b, e, u) /\ UnitMade(t, u)
    /\ ItemsText(us) \o MarkupText(mk) = Part(t, 0, b)

\* The text of a unit appended to the text of those before it.
LEMMA TextGrows ==
    ASSUME NEW t, NEW us, NEW mk, NEW b, NEW u, NEW e, Follows(t, us, mk, b, u, e)
    PROVE  ItemsText(us) \o MarkupText(<<u>> \o mk) = Part(t, 0, e)
<1> USE DEF Follows
<1>1. /\ MarkupText(mk) \in Seq(ToSet(t)) /\ Written(u) \in Seq(ToSet(t))
      /\ MarkupText(<<u>> \o mk) = MarkupText(mk) \o Written(u)
  BY MarkupGrows DEF UnitMade
<1>2. ItemsText(us) \in Seq(ToSet(t))
  <2>1. PICK x : x = [markup |-> << >>, token |-> u]
    OBVIOUS
  <2>2. ItemMade(t, x)
    BY <2>1, NoMarkup DEF ItemMade
  <2> QED BY <2>2, ItemsGrow
<1>4. Part(t, 0, b) \o Part(t, b, e) = Part(t, 0, e)
  <2>1. 0 \in Nat /\ b \in Nat /\ e \in Nat /\ 0 <= b /\ b <= e /\ e <= Len(t)
    BY DEF UnitOf
  <2> QED BY <2>1, PartsJoin
<1>5. Written(u) = Part(t, b, e)
  BY DEF UnitOf
<1>6. (ItemsText(us) \o MarkupText(mk)) \o Written(u) = Part(t, 0, e)
  BY <1>4, <1>5
<1>7. PICK p \in Seq(ToSet(t)) : p = ItemsText(us)
  BY <1>2
<1>8. PICK q \in Seq(ToSet(t)) : q = MarkupText(mk)
  BY <1>1
<1>9. PICK r \in Seq(ToSet(t)) : r = Written(u)
  BY <1>1
<1>10. p \o (q \o r) = (p \o q) \o r
  BY SMTT(30)
<1> QED BY <1>1, <1>6, <1>7, <1>8, <1>9, <1>10

\* A rule adds to the markup what it has matched, or to the units with the markup.
LEMMA RuleKeepsText ==
    ASSUME PosInv, QueueInv, NestInv, TextInv, Scanning
    PROVE  TextInv'
<1>1. RuleOutcome /\ text' = text /\ log' = log
  BY ScanOutcome, ScanControls DEF RuleOutcome, RuleControls
<1>2. PICK t : t = text /\ t \in Seq(ToSet(t))
  BY DEF NestInv
<1>3. pc \in RuleNames /\ pc # "failed" /\ units = EmptyQueue
  BY DEF Scanning, InitRule, RuleNames, QueueInv
<1>4. PICK L : log \in Seq(L)
  BY DEF TextInv
<1>5. Units = log
  BY <1>3, <1>4, OneQueued DEF Units
<1>6. ItemsMade(t, Units) /\ MarkupMade(t, markup)
      /\ ItemsText(Units) \o MarkupText(markup) = Part(t, 0, Base)
  BY <1>2, <1>3 DEF TextInv
<1>7. CASE GoesOn \/ Fails
  <2>1. Units' = Units /\ markup' = markup /\ (pc' = "failed" \/ Base' = Base)
    BY <1>1, <1>7 DEF GoesOn, Fails, Units
  <2> QED BY <1>1, <1>2, <1>4, <1>6, <2>1 DEF TextInv
<1>8. CASE Pushes
  <2>1. PICK u : UnitOf(text, Base, at', u) /\ markup' = <<u>> \o markup
    BY <1>8 DEF Pushes
  <2>2. PICK b : b = Base
    OBVIOUS
  <2>3. PICK e : e = at'
    OBVIOUS
  <2>4. PICK mk : mk = markup
    OBVIOUS
  <2>5. PICK us : us = Units
    OBVIOUS
  <2>6. UnitOf(t, b, e, u)
    BY <1>2, <2>1, <2>2, <2>3
  <2>7. UnitMade(t, u)
    BY <1>2, <2>6, UnitExact
  <2>8. /\ MarkupMade(t, <<u>> \o mk) /\ MarkupText(mk) \in Seq(ToSet(t))
        /\ MarkupText(<<u>> \o mk) = MarkupText(mk) \o Written(u)
    BY <1>6, <2>4, <2>7, MarkupGrows
  <2>9. ItemsMade(t, us) /\ ItemsText(us) \o MarkupText(mk) = Part(t, 0, b)
    BY <1>6, <2>2, <2>4, <2>5
  <2>10. ItemsText(us) \o MarkupText(<<u>> \o mk) = Part(t, 0, e)
    <3>1. Follows(t, us, mk, b, u, e)
      BY <1>2, <1>6, <2>4, <2>6, <2>7, <2>9 DEF Follows
    <3> QED BY <3>1, TextGrows, ZenonT(30)
  <2>11. Units' = Units /\ Base' = at'
    BY <1>1, <1>8 DEF Pushes, Units
  <2> QED BY <1>1, <1>2, <1>4, <2>1, <2>3, <2>4, <2>5, <2>8, <2>9, <2>10, <2>11 DEF TextInv
<1>9. CASE Enqueues
  <2>1. PICK u : /\ UnitOf(text, Base, at', u)
                 /\ units' = Enq([markup |-> markup, token |-> u], units)
    BY <1>9 DEF Enqueues
  <2>2. PICK b : b = Base
    OBVIOUS
  <2>3. PICK e : e = at'
    OBVIOUS
  <2>4. PICK mk : mk = markup
    OBVIOUS
  <2>5. PICK us : us = Units
    OBVIOUS
  <2>6. UnitOf(t, b, e, u)
    BY <1>2, <2>1, <2>2, <2>3
  <2>7. UnitMade(t, u)
    BY <1>2, <2>6, UnitExact
  <2>8. PICK x : x = [markup |-> mk, token |-> u]
    OBVIOUS
  <2>9. ItemMade(t, x) /\ x.markup = mk /\ x.token = u
    BY <1>6, <2>4, <2>7, <2>8 DEF ItemMade
  <2>10. ItemsMade(t, us) /\ ItemsText(us) \o MarkupText(mk) = Part(t, 0, b)
    BY <1>6, <2>2, <2>4, <2>5
  <2>11. /\ ItemsMade(t, Append(us, x)) /\ ItemsText(us) \in Seq(ToSet(t))
         /\ ItemsText(Append(us, x)) = ItemsText(us) \o TextOf(x)
    BY <2>9, <2>10, ItemsGrow
  <2>12. ItemsText(Append(us, x)) \o << >> = Part(t, 0, e)
    <3>1. /\ TextOf(x) = MarkupText(mk) \o Written(u) /\ MarkupText(mk) \in Seq(ToSet(t))
          /\ Written(u) \in Seq(ToSet(t)) /\ TextOf(x) \in Seq(ToSet(t))
      BY <2>9, ItemText
    <3>2. ItemsText(us) \o (MarkupText(mk) \o Written(u)) = Part(t, 0, e)
      <4>1. MarkupText(<<u>> \o mk) = MarkupText(mk) \o Written(u)
        BY <1>6, <2>4, <2>7, MarkupGrows
      <4>2. ItemsText(us) \o MarkupText(<<u>> \o mk) = Part(t, 0, e)
        <5>1. Follows(t, us, mk, b, u, e)
          BY <1>2, <1>6, <2>4, <2>6, <2>7, <2>10 DEF Follows
        <5> QED BY <5>1, TextGrows, ZenonT(30)
      <4> QED BY <4>1, <4>2
    <3>3. \A C : \A p, q \in Seq(C) : (p \o q) \o << >> = p \o q
      OBVIOUS
    <3> QED BY <2>11, <3>1, <3>2, <3>3
  <2>13. Units' = Append(us, x)
    <3>1. Contents(units') = <<x>>
      BY <1>3, <2>1, <2>4, <2>8, OneQueued
    <3>2. \A C : \A p \in Seq(C) : \A y : p \o <<y>> = Append(p, y)
      OBVIOUS
    <3> QED BY <1>1, <1>4, <1>5, <2>5, <3>1, <3>2 DEF Units
  <2>14. markup' = << >> /\ Base' = at'
    BY <1>9 DEF Enqueues
  <2>15. ItemsText(Units') \o MarkupText(markup') = Part(text', 0, Base')
         /\ ItemsMade(text', Units') /\ MarkupMade(text', markup')
    BY <1>1, <1>2, <2>3, <2>11, <2>12, <2>13, <2>14, NoMarkup
  <2>16. \E S : log' \in Seq(S)
    BY <1>1, <1>4
  <2> QED BY <2>15, <2>16 DEF TextInv
<1> QED BY <1>1, <1>7, <1>8, <1>9 DEF RuleOutcome

\* The token stream moves units from the queue to the log.
LEMMA StreamKeepsText ==
    ASSUME PosInv, QueueInv, NestInv, TextInv, Read \/ Stream
    PROVE  TextInv'
<1>1. StreamStep /\ Base = at /\ Base' = at
  BY StreamSteps, StreamOutcome DEF StreamStep
<1>2. pc # "failed" /\ text' = text /\ markup' = markup
  BY <1>1 DEF StreamStep, Waiting
<1>3. PICK L : log \in Seq(L)
  BY DEF TextInv
<1>4. Units' = Units /\ \E S : log' \in Seq(S)
  <2>1. CASE Read
    BY <1>3, <2>1 DEF Read, state, streamVars, Units
  <2>2. CASE ReadScans
    BY <1>3, <2>2 DEF ReadScans, state, Units
  <2>3. CASE ReadDequeues
    <3>1. HoldsOne(units)
      BY <2>3 DEF ReadDequeues, QueueInv, IsEmptyQueue
    <3>2. PICK x : x = Deq(units).item
      OBVIOUS
    <3>3. log' = Append(log, x) /\ units' = Deq(units).queue
      BY <2>3, <3>2 DEF ReadDequeues
    <3>4. Contents(units) = <<x>> /\ Contents(units') = << >>
      BY <3>1, <3>2, <3>3, OneQueued
    <3>5. PICK l : l = log /\ l \in Seq(L)
      BY <1>3
    <3>6. Append(l, x) \in Seq(L \union {x}) /\ Append(l, x) = l \o <<x>>
          /\ Append(l, x) \o << >> = Append(l, x)
      BY <3>5
    <3> QED BY <3>3, <3>4, <3>5, <3>6 DEF Units
  <2>4. CASE Check
    <3>1. HoldsOne(units) /\ units' = Peek(units).queue /\ log' = log
      BY <2>4 DEF Check, QueueInv, streamVars
    <3> QED BY <1>3, <3>1, OneQueued DEF Units
  <2>5. CASE Deliver
    BY <1>3, <2>5 DEF Deliver, state, Units
  <2> QED BY <2>1, <2>2, <2>3, <2>4, <2>5 DEF Stream
<1> QED BY <1>1, <1>2, <1>4 DEF TextInv

\* No step loses, repeats or reorders a part of the text.
LEMMA TextStep ==
    ASSUME PosInv, QueueInv, NestInv, TextInv, [Next]_vars
    PROVE  TextInv'
<1>1. CASE UNCHANGED vars
  BY <1>1 DEF vars, state, streamVars, TextInv, Units, Base, Openings
<1> QED BY <1>1, RuleKeepsText, StreamKeepsText DEF Next

\* Nothing is scanned before the first call.
LEMMA InitText ==
    ASSUME Init
    PROVE  NestInv /\ ErrInv /\ TextInv
<1>1. /\ text \in Seq(ToSet(text)) /\ at = 0 /\ pos = MinPos /\ thread = NoThread
      /\ frames = << >> /\ pc = "idle" /\ caller = "none" /\ error = NoError
      /\ log = << >> /\ units = EmptyQueue /\ markup = << >>
  BY TextsAssumption DEF Init
<1>2. PICK t : t = text /\ t \in Seq(ToSet(t))
  BY <1>1
<1>3. << >> \in Seq({}) /\ 0 \in 0..Len(t)
  BY <1>2
<1>4. pos = PosIn(text, 0)
  <2>1. EndsIn(t, 0) = {}
    BY DEF EndsIn
  <2>2. Cardinality(EndsIn(t, 0)) = 0
    BY <2>1, FS_EmptySet
  <2>3. EndsIn(t, 0) \union {0} = {0}
    BY <2>1
  <2>4. Max({0}) = 0
    <3>1. \A x \in {0} : x = 0
      OBVIOUS
    <3>2. \E x \in {0} : \A y \in {0} : x >= y
      OBVIOUS
    <3> QED BY <3>1, <3>2 DEF Max
  <2>5. PosIn(t, 0) = [cnum |-> 0, lnum |-> 1, bol |-> 0]
    BY <2>2, <2>3, <2>4 DEF PosIn
  <2> QED BY <1>1, <1>2, <2>5 DEF MinPos, Pos
<1>5. NestInv
  <2>1. pc \notin Constructs \union {"failed"} /\ pc # "line"
    BY <1>1 DEF Constructs
  <2>2. thread = [opening |-> thread.opening, acc |-> thread.acc]
    BY <1>1 DEF NoThread
  <2> QED BY <1>1, <1>2, <1>3, <1>4, <2>1, <2>2 DEF NestInv
<1>6. ErrInv
  BY <1>1 DEF ErrInv
<1>7. TextInv
  <2>1. Units = << >>
    <3>1. << >> \o << >> = << >>
      OBVIOUS
    <3> QED BY <1>1, <3>1, OneQueued DEF Units
  <2>2. Base = 0
    BY <1>1 DEF Base, Constructs
  <2>3. Part(t, 0, 0) = << >>
    <3>1. PICK p : p = Part(t, 0, 0)
      OBVIOUS
    <3>2. p \in Seq(ToSet(t)) /\ Len(p) = 0 - 0
      <4>1. 0 \in Nat /\ 0 <= 0 /\ 0 <= Len(t)
        BY <1>2
      <4>2. PICK z \in Nat : z = 0
        OBVIOUS
      <4>3. Part(t, z, z) \in Seq(ToSet(t)) /\ Len(Part(t, z, z)) = z - z
        BY <1>2, <4>1, <4>2, PartIs
      <4> QED BY <3>1, <4>2, <4>3
    <3>3. Len(p) = 0
      BY <3>2
    <3>4. p = << >>
      BY <3>2, <3>3
    <3> QED BY <3>1, <3>4
  <2>4. << >> \o << >> = << >>
    OBVIOUS
  <2>5. ItemsMade(t, << >>) /\ MarkupMade(t, << >>)
        /\ ItemsText(<< >>) = << >> /\ MarkupText(<< >>) = << >>
    BY NoMarkup
  <2> QED BY <1>1, <1>2, <1>3, <2>1, <2>2, <2>3, <2>4, <2>5 DEF TextInv
<1> QED BY <1>5, <1>6, <1>7

-----------------------------------------------------------------------------
TextIInv == PosInv /\ QueueInv /\ NestInv /\ ErrInv /\ TextInv

\* The invariants hold together in every reachable state.
LEMMA TextIInvHolds == Spec => []TextIInv
<1>1. Init => TextIInv
  BY InitHolds, InitText DEF TextIInv
<1>2. TextIInv /\ [Next]_vars => TextIInv'
  BY PosStep, QueueStep, NestStep, ErrStep, TextStep DEF TextIInv
<1> QED
  BY <1>1, <1>2, PTL DEF Spec

\* The state of the lexer is well formed: the rules call each other with the
\* frames that they need, inside block comments only, and each construct is
\* opened after the one around it (Lexer.mll, scan_block, scan_string,
\* scan_line).
THEOREM LexerTypes == Spec => []TypeOK
<1>1. ASSUME TextIInv
      PROVE  TypeOK
  <2> USE <1>1 DEF TextIInv
  <2>1. at \in 0..Len(text)
    BY DEF NestInv
  <2>2. pc \in {"idle", "read", "init", "scan", "string", "block", "line", "check",
                "deliver", "closed", "failed"}
    BY DEF PosInv, RuleNames, Waiting
  <2>3. frames # << >> => pc \in {"string", "block", "failed"}
    BY DEF NestInv, Constructs
  <2>4. ASSUME NEW i \in DOMAIN frames
        PROVE  frames[i].start.cnum < (<<thread.opening>> \o frames)[i].start.cnum
    <3>1. PICK S : frames \in Seq(S)
      BY DEF NestInv
    <3>2. i \in 1..Len(frames) /\ frames # << >> /\ Len(frames) \in Nat
      BY <2>4, <3>1
    <3>3. Chain(text, Openings)
      BY <3>2 DEF NestInv
    <3>4. Len(Openings) = Len(frames) + 1 /\ Openings[i + 1] = frames[i]
      BY <3>1, <3>2, Prepended DEF Openings
    <3>5. i + 1 \in 2..Len(Openings) /\ (i + 1) - 1 = i
      BY <3>2, <3>4
    <3>6. Openings[i + 1].start.cnum < Openings[(i + 1) - 1].start.cnum
      BY <3>3, <3>5 DEF Chain
    <3> QED BY <3>4, <3>5, <3>6 DEF Openings
  <2>5. pc \in {"init", "scan"} => thread = NoThread
    BY DEF NestInv, Constructs
  <2>6. caller \in {"none", "read", "check"} /\ (pc = "failed") = (error # NoError)
    BY DEF ErrInv
  <2> QED BY <2>1, <2>2, <2>3, <2>4, <2>5, <2>6 DEF TypeOK
<1> QED BY <1>1, TextIInvHolds, PTL

\* Every token and every piece of markup, given to the logger or still queued,
\* lies in the text where its region says, character for character and with its
\* line and column (Lexer.mll, sync, push_*, mk_*, scan_block).
THEOREM RegionsFollow == Spec => []RegionsExact
<1>1. ASSUME TextIInv
      PROVE  RegionsExact
  <2>1. ASSUME NEW u, UnitMade(text, u)
        PROVE  Exact(u)
    BY <2>1 DEF UnitMade, ExactIn, Exact, PosIn, PosAt, EndsIn, LineEnds
  <2>2. PICK S : Units \in Seq(S) /\ \A x \in S : ItemMade(text, x)
    BY <1>1 DEF TextIInv, TextInv, ItemsMade
  <2>3. ASSUME NEW i \in DOMAIN Units
        PROVE  /\ Exact(Units[i].token)
               /\ \A j \in DOMAIN Units[i].markup : Exact(Units[i].markup[j])
    <3>1. PICK x : x = Units[i] /\ ItemMade(text, x)
      BY <2>2, <2>3
    <3>2. Exact(x.token)
      BY <2>1, <3>1 DEF ItemMade
    <3>3. PICK T : x.markup \in Seq(T) /\ \A u \in T : UnitMade(text, u)
      BY <3>1 DEF ItemMade, MarkupMade
    <3>4. \A j \in DOMAIN x.markup : x.markup[j] \in T
      BY <3>3
    <3>5. \A j \in DOMAIN x.markup : Exact(x.markup[j])
      BY <2>1, <3>3, <3>4
    <3> QED BY <3>1, <3>2, <3>5
  <2> QED BY <2>3 DEF RegionsExact
<1> QED BY <1>1, TextIInvHolds, PTL

\* The units given to the logger, those queued and the construct that is being
\* scanned make up the text matched so far: nothing is lost, repeated or
\* reordered (Lexer.mll, enqueue, push_*, thread_to_string, read_token).
THEOREM TextPreserved == Spec => []TextKept
<1>1. ASSUME TextIInv, pc # "failed"
      PROVE  (ItemsText(Units) \o MarkupText(markup)) \o thread.acc = SubSeq(text, 1, at)
  <2>1. ItemsText(Units) \o MarkupText(markup) = Part(text, 0, Base)
    BY <1>1 DEF TextIInv, TextInv
  <2>2. text \in Seq(ToSet(text)) /\ at \in 0..Len(text)
    BY <1>1 DEF TextIInv, NestInv
  <2>3. Part(text, 0, at) = SubSeq(text, 1, at)
    BY DEF Part
  <2>4. CASE pc \in Constructs
    <3>1. thread.acc = Part(text, Base, at) /\ Base \in Nat /\ Base <= at
      BY <1>1, <2>4, OpenFacts DEF TextIInv
    <3>2. at \in Nat /\ at <= Len(text) /\ 0 \in Nat /\ 0 <= Base
      BY <2>2, <3>1
    <3>3. Part(text, 0, Base) \o Part(text, Base, at) = Part(text, 0, at)
      BY <2>2, <3>1, <3>2, PartsJoin
    <3> QED BY <2>1, <2>3, <3>1, <3>3
  <2>5. CASE pc \notin Constructs
    <3>1. Base = at /\ thread.acc = << >>
      BY <1>1, <2>5 DEF TextIInv, NestInv, Base, NoThread
    <3>2. at \in Nat /\ at <= Len(text) /\ 0 \in Nat /\ 0 <= at
      BY <2>2
    <3>3. Part(text, 0, at) \in Seq(ToSet(text))
      BY <2>2, <3>2, PartIs
    <3>4. Part(text, 0, at) \o << >> = Part(text, 0, at)
      BY <3>3
    <3> QED BY <2>1, <2>3, <3>1, <3>4
  <2> QED BY <2>4, <2>5
<1>2. TextIInv => TextKept
  BY <1>1 DEF TextKept, ItemsText, MarkupText
<1> QED BY <1>2, TextIInvHolds, PTL
=============================================================================
