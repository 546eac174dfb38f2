------------------------------- MODULE Lexer -------------------------------
(***************************************************************************)
(* The regular expressions of parser/pascaligo/Lexer.mll as sets of          *)
(* sequences of characters, the clauses of the rule scan in their order, and *)
(* the longest-match rule of ocamllex that chooses among them.               *)
(*                                                                           *)
(* Left out: underscores in literals, #line directives, and the decoding of  *)
(* UTF-8 in comments (a character is one byte, except the byte-order mark).  *)
(***************************************************************************)
EXTENDS Naturals, SequencesExt

CONSTANTS
    Keywords,       \* identifiers with a token of their own
    Reserved        \* identifiers that are refused

-----------------------------------------------------------------------------
(* FQueue.ml: a front list in order and a rear list in reverse, which is    *)
(* reversed into the front when the front runs out.                          *)

EmptyQueue == [rear |-> << >>, front |-> << >>]

Enq(x, q) == [q EXCEPT !.rear = <<x>> \o @]

\* The recursive call of deq and of peek: it ends with a front that is not
\* empty, or with both lists empty.
WithFront(q) ==
    IF q.front = << >> THEN [rear |-> << >>, front |-> Reverse(q.rear)] ELSE q

IsEmptyQueue(q) == q = EmptyQueue

\* Mutant: the element stays in the queue.
DeqKeeping(q) == [queue |-> WithFront(q), item |-> Head(WithFront(q).front)]

\* deq and peek of a queue that is not empty: the element and the queue kept.
Deq(q) == [queue |-> [WithFront(q) EXCEPT !.front = Tail(@)],
           item  |-> Head(WithFront(q).front)]
Peek(q) == [queue |-> WithFront(q), item |-> Head(WithFront(q).front)]

\* What the queue holds, oldest first.
Contents(q) == q.front \o Reverse(q.rear)

-----------------------------------------------------------------------------
(* The regular expressions and the clauses.                                  *)

Small   == {"a", "b", "f", "g", "i", "m", "n", "r", "s", "t", "x", "z"}
Capital == {"A", "C"}
Digit   == {"0", "1"}
Newline == {<<"\n">>, <<"\r">>, <<"\r", "\n">>}
BOM     == <<"EF", "BB", "BF">>
Symbols ==
    {<<s>> : s \in {";", ",", "(", ")", "[", "]", "{", "}", "#", "|", "=", ":",
                    "<", ">", "+", "-", "*", "/", ".", "_", "^"}}
      \union {<<"-", ">">>, <<":", "=">>, <<"<", "=">>, <<">", "=">>,
              <<"=", "/", "=">>}

All(s, S) == ToSet(s) \subseteq S

IsName(s, First) ==
    s # << >> /\ s[1] \in First /\ All(s, Small \union Capital \union Digit \union {"_"})
IsNatural(s) == s # << >> /\ All(s, Digit)
IsSuffixed(s, suffix) ==
    /\ Len(s) > Len(suffix)
    /\ All(SubSeq(s, 1, Len(s) - Len(suffix)), Digit)
    /\ IsSuffix(suffix, s)
IsBytes(s) ==
    /\ Len(s) >= 2 /\ Len(s) % 2 = 0
    /\ s[1] = "0" /\ s[2] = "x"
    /\ All(SubSeq(s, 3, Len(s)), Digit \union {"A", "C"})
HasMinus(s) == s # << >> /\ s[1] = "-"
IsEscape(s) ==
    \/ s \in {<<"\\", c>> : c \in {"n", "\"", "\\", "b", "r", "t"}}
    \/ /\ Len(s) = 4 /\ s[1] = "\\" /\ s[2] = "x"
       /\ All(SubSeq(s, 3, 4), Digit \union {"A", "C"})

\* The clauses of scan, first to last.
Clauses ==
    <<"newline", "space", "tabs", "ident", "constr", "bytes", "nat", "mtz", "int",
      "symbol", "string", "block", "line", "minus", "negbytes", "other">>

Matches(clause, s) ==
    CASE clause = "newline"  -> s \in Newline
      [] clause = "space"    -> s # << >> /\ All(s, {" "})
      [] clause = "tabs"     -> s # << >> /\ All(s, {"\t"})
      [] clause = "ident"    -> IsName(s, Small)
      [] clause = "constr"   -> IsName(s, Capital)
      [] clause = "bytes"    -> IsBytes(s)
      [] clause = "nat"      -> IsSuffixed(s, <<"n">>)
      [] clause = "mtz"      -> IsSuffixed(s, <<"m", "t", "z">>)
      [] clause = "int"      -> IsNatural(s) \/ (HasMinus(s) /\ IsNatural(Tail(s)))
      [] clause = "symbol"   -> s \in Symbols
      [] clause = "string"   -> s = <<"\"">>
      [] clause = "block"    -> s = <<"(", "*">>
      [] clause = "line"     -> s = <<"/", "/">>
      [] clause = "minus"    -> s = <<"-">>
      [] clause = "negbytes" -> HasMinus(s) /\ IsBytes(Tail(s))
      [] clause = "other"    -> Len(s) = 1

\* The rules inside a string, a block comment and a line comment.
StringClauses == <<"newline", "invalid", "string", "escape", "badescape", "other">>
MatchesInString(clause, s) ==
    CASE clause = "invalid"   -> s \in {<<"\t">>, <<"\r">>, <<"BS">>}
      [] clause = "escape"    -> IsEscape(s)
      [] clause = "badescape" -> Len(s) = 2 /\ s[1] = "\\"
      [] OTHER                -> Matches(clause, s)

BlockClauses == <<"string", "block", "close", "newline", "other">>
MatchesInBlock(clause, s) ==
    IF clause = "close" THEN s = <<"*", ")">> ELSE Matches(clause, s)

LineClauses == <<"newline", "other">>

ClausesOf(rule) ==
    CASE rule = "scan"   -> Clauses
      [] rule = "string" -> StringClauses
      [] rule = "block"  -> BlockClauses
      [] rule = "line"   -> LineClauses

MatchesIn(rule, clause, s) ==
    CASE rule = "string" -> MatchesInString(clause, s)
      [] rule = "block"  -> MatchesInBlock(clause, s)
      [] OTHER           -> Matches(clause, s)

\* ocamllex: the longest prefix of s that a clause matches and, of the clauses
\* that match it, the first.  s is not empty: every rule ends with a catch-all.
Longest(rule, s) ==
    LET clauses == ClausesOf(rule)
        hits == {h \in (1..Len(clauses)) \X (1..Len(s)) :
                    MatchesIn(rule, clauses[h[1]], SubSeq(s, 1, h[2]))}
        best == CHOOSE h \in hits : \A g \in hits :
                    h[2] > g[2] \/ (h[2] = g[2] /\ h[1] <= g[1])
    IN  [clause |-> clauses[best[1]], lexeme |-> SubSeq(s, 1, best[2])]

\* LexToken.mk_int, mk_nat, mk_mtz: a zero that is not written "0".
IsZero(s) == "0" \in ToSet(s) /\ "1" \notin ToSet(s)
NonCanonicalZero(kind, s) ==
    /\ IsZero(s)
    /\ s # (CASE kind = "int" -> <<"0">>
               [] kind = "nat" -> <<"0", "n">>
               [] kind = "mtz" -> <<"0", "m", "t", "z">>)

(***************************************************************************)
(* Positions (simple-utils/pos.ml): bytes from the start, line, and bytes    *)
(* before the line.                                                          *)
(***************************************************************************)
Pos(cnum, lnum, bol) == [cnum |-> cnum, lnum |-> lnum, bol |-> bol]
MinPos == Pos(0, 1, 0)
ShiftBytes(p, n) == Pos(p.cnum + n, p.lnum, p.bol)

AddNl(p) == Pos(p.cnum, p.lnum + 1, p.cnum)
NewLine(p, s) == AddNl(ShiftBytes(p, Len(s)))
Region(start, stop) == [start |-> start, stop |-> stop]

----------------------------------------------------------------------------
(***************************************************************************)
(* The PascaLIGO lexer (parser/pascaligo/Lexer.mll): the scanning rules, one *)
(* match of a regular expression per step, under the token stream that a     *)
(* parser reads.  The stream keeps a queue of the units it has scanned, since *)
(* a token is checked against the next one before it is returned, and        *)
(* rewrites the positions of the lexing buffer so that the parser, which     *)
(* reads them there, does not see the look-ahead.                            *)
(*                                                                           *)
(* The state of the code is threaded through the rules and stored when a     *)
(* scan returns; an exception loses the threaded value, which nothing reads  *)
(* afterwards: both clients stop at the first error.                         *)
(***************************************************************************)
CONSTANT Texts          \* the source files

ASSUME TextsAssumption == \A t \in Texts : t \in Seq(ToSet(t))

VARIABLES
    text,       \* the source file
    at,         \* lex_curr_pos: characters matched
    buffer,     \* lex_start_p and lex_curr_p
    bufReg,     \* !buf_reg: the buffer's positions when the last scan ended
    firstCall,  \* !first_call
    units, markup, last, pos,   \* the logical state; markup is newest first
    pc,         \* the rule or function that runs
    caller,     \* what runs when the scan returns: read_token or next_token
    token,      \* the unit that read_token has taken from the queue
    thread,     \* opening and text of a string or of a comment
    frames,     \* the openings kept by the calls of scan_block, innermost first
    log,        \* the units given to the logger
    delivered,  \* the units returned
    error       \* the exception raised

streamVars == <<bufReg, firstCall, caller, token, log, delivered>>
state == <<units, markup, last, pos>>
vars == <<text, at, buffer, state, pc, thread, frames, error, streamVars>>

NoError == [kind |-> "none"]
NoThread == [opening |-> Region(MinPos, MinPos), acc |-> << >>]
Token(kind, lexeme, region) == [kind |-> kind, lexeme |-> lexeme, region |-> region]
NoToken == [markup |-> << >>, token |-> Token("none", << >>, Region(MinPos, MinPos))]

\* What the program writes to find the token again: mk_bytes drops the 0x.
Written(u) == (IF u.kind = "bytes" THEN <<"0", "x">> ELSE << >>) \o u.lexeme

Init ==
    /\ text \in Texts
    /\ at = 0
    /\ buffer = Region(MinPos, MinPos)
    /\ bufReg = Region(MinPos, MinPos)
    /\ firstCall = TRUE
    /\ units = EmptyQueue /\ markup = << >>
    /\ last = Region(MinPos, MinPos) /\ pos = MinPos
    /\ pc = "idle" /\ caller = "none" /\ token = NoToken
    /\ thread = NoThread /\ frames = << >>
    /\ log = << >> /\ delivered = << >> /\ error = NoError

-----------------------------------------------------------------------------
(* The lexing engine and the parts of its semantic actions.                 *)

AtEof == at = Len(text)
Rest == SubSeq(text, at + 1, Len(text))

\* The engine's positions after a match.
CurrP(lexeme) == Pos(at + Len(lexeme), buffer.stop.lnum, buffer.stop.bol)

\* A match, and a match followed by Lexing.new_line.
Match(lexeme) ==
    /\ at' = at + Len(lexeme)
    /\ buffer' = Region(buffer.stop, CurrP(lexeme))
MatchLine(lexeme) ==
    /\ at' = at + Len(lexeme)
    /\ buffer' = Region(buffer.stop, AddNl(CurrP(lexeme)))

\* sync: the region of the lexeme and the state past it.
Synced(lexeme) == ShiftBytes(pos, Len(lexeme))
RegionOf(lexeme) == Region(pos, Synced(lexeme))

\* Only the position moves.
Move(stop) == pos' = stop /\ UNCHANGED <<units, markup, last>>

Fail(kind, region) ==
    /\ error' = [kind |-> kind, region |-> region]
    /\ pc' = "failed"
    /\ UNCHANGED <<state, thread, frames>>

\* The markup is kept newest first.
Push(unit, stop) ==
    /\ markup' = <<unit>> \o markup /\ pos' = stop
    /\ UNCHANGED <<units, last>>

\* Mutant: the markup is left for the next token too.
EnqueueKeepingMarkup(tok, stop) ==
    /\ units' = Enq([markup |-> markup, token |-> tok], units) /\ pos' = stop
    /\ UNCHANGED <<markup, last>>

\* enqueue: the token takes the markup on its left.
Enqueue(tok, stop) ==
    /\ units' = Enq([markup |-> markup, token |-> tok], units)
    /\ markup' = << >> /\ pos' = stop
    /\ UNCHANGED last

\* The rule ends; scan saves the region of its last match and returns.
Return ==
    /\ bufReg' = buffer'
    /\ firstCall' = FALSE
    /\ pc' = caller
    /\ UNCHANGED <<text, error, caller, token, log, delivered>>

\* The rule goes on, or calls another.
Continue(rule) ==
    /\ pc' = rule
    /\ UNCHANGED <<text, error, streamVars>>

-----------------------------------------------------------------------------
(* The rules init and scan.                                                 *)

InitRule ==
    /\ pc = "init"
    /\ \/ /\ IsPrefix(BOM, Rest)
          /\ Match(BOM)
          /\ Push(Token("bom", BOM, RegionOf(BOM)), Synced(BOM))
          /\ Continue("scan")
          /\ UNCHANGED <<thread, frames>>
       \/ /\ ~IsPrefix(BOM, Rest) /\ ~AtEof
          /\ Continue("scan")       \* one character matched and rolled back
          /\ UNCHANGED <<at, buffer, state, thread, frames>>
       \/ /\ AtEof                  \* the catch-all does not match eof
          /\ Fail("Failure", RegionOf(<< >>))
          /\ UNCHANGED <<text, at, buffer, streamVars>>

ScanNewline(m) ==
    /\ m.clause = "newline"
    /\ MatchLine(m.lexeme)
    /\ LET stop == NewLine(pos, m.lexeme)
       IN  Push(Token("newline", m.lexeme, Region(pos, stop)), stop)
    /\ Continue("scan")
    /\ UNCHANGED <<thread, frames>>

ScanBlank(m) ==
    /\ m.clause \in {"space", "tabs"}
    /\ Match(m.lexeme)
    /\ Push(Token(m.clause, m.lexeme, RegionOf(m.lexeme)),
                     Synced(m.lexeme))
    /\ Continue("scan")
    /\ UNCHANGED <<thread, frames>>

\* mk_ident, mk_constr, mk_bytes, mk_nat, mk_mtz, mk_int, mk_sym
MakeToken(clause, lexeme) ==
    Token(IF clause = "ident" /\ lexeme \in Keywords THEN "keyword" ELSE clause,
          IF clause = "bytes" THEN SubSeq(lexeme, 3, Len(lexeme)) ELSE lexeme,
          RegionOf(lexeme))

TokenError(clause, lexeme) ==
    CASE clause = "ident" /\ lexeme \in Reserved -> "Reserved_name"
      [] clause \in {"nat", "mtz", "int"} /\ NonCanonicalZero(clause, lexeme) ->
           "Non_canonical_zero"
      [] clause = "negbytes" -> "Negative_byte_sequence"
      [] clause = "other" -> "Unexpected_character"
      [] OTHER -> "none"

ScanToken(m) ==
    /\ m.clause \in {"ident", "constr", "bytes", "nat", "mtz", "int", "symbol"}
    /\ TokenError(m.clause, m.lexeme) = "none"
    /\ Match(m.lexeme)
    /\ Enqueue(MakeToken(m.clause, m.lexeme), Synced(m.lexeme))
    /\ Return
    /\ UNCHANGED <<thread, frames>>

ScanError(m) ==
    /\ TokenError(m.clause, m.lexeme) # "none"
    /\ Match(m.lexeme)
    /\ Fail(TokenError(m.clause, m.lexeme), RegionOf(m.lexeme))
    /\ UNCHANGED <<text, streamVars>>

ScanEof ==
    /\ pc = "scan"
    /\ Match(<< >>)
    /\ Enqueue(Token("eof", << >>, RegionOf(<< >>)), Synced(<< >>))
    /\ Return
    /\ UNCHANGED <<thread, frames>>

ScanOpening(m) ==
    /\ m.clause \in {"string", "block", "line"}
    /\ Match(m.lexeme)
    /\ Move(Synced(m.lexeme))
    /\ thread' = [opening |-> RegionOf(m.lexeme), acc |-> m.lexeme]
    /\ Continue(m.clause)
    /\ UNCHANGED frames

-----------------------------------------------------------------------------
(* Strings and comments.                                                    *)

\* The region from the opening of the thread to a position.
ThreadRegion(stop) == Region(thread.opening.start, stop)

\* Mutant: the character that the catch-all has matched is rolled back, and not
\* scanned again.
ExtendRolledBack(lexeme) == UNCHANGED <<at, buffer, state, thread>>

\* A part of the construct is matched.  (The catch-alls of the comments roll
\* their character back and scan_utf8 matches it again.)
Extend(lexeme) ==
    /\ Match(lexeme)
    /\ Move(Synced(lexeme))
    /\ thread' = [thread EXCEPT !.acc = @ \o lexeme]

ExtendLine(lexeme) ==
    /\ MatchLine(lexeme)
    /\ Move(NewLine(pos, lexeme))
    /\ thread' = [thread EXCEPT !.acc = @ \o lexeme]

\* Mutant: the inner call of scan_block returns and leaves its frame.
ResumeKeepingFrame(lexeme) ==
    /\ Match(lexeme)
    /\ Move(Synced(lexeme))
    /\ thread' = [opening |-> Head(frames), acc |-> thread.acc \o lexeme]
    /\ Continue("block")
    /\ UNCHANGED frames

\* Mutant: the opening of the inner construct is kept.
ResumeInner(lexeme) ==
    /\ Extend(lexeme)
    /\ frames' = Tail(frames)
    /\ Continue("block")

\* A construct inside a block comment ends: the comment's opening is back.
ResumeBlock(lexeme) ==
    /\ Match(lexeme)
    /\ Move(Synced(lexeme))
    /\ thread' = [opening |-> Head(frames), acc |-> thread.acc \o lexeme]
    /\ frames' = Tail(frames)
    /\ Continue("block")

StringContinues(m) ==
    /\ m.clause \in {"escape", "other"}
    /\ Extend(m.lexeme)
    /\ Continue("string")
    /\ UNCHANGED frames

StringCloses(m) ==
    /\ m.clause = "string"
    /\ \/ /\ frames # << >>
          /\ ResumeBlock(m.lexeme)
       \/ /\ frames = << >>
          /\ Match(m.lexeme)
          /\ LET stop == Synced(m.lexeme)
             IN  Enqueue(Token("string", thread.acc \o m.lexeme,
                                        ThreadRegion(stop)), stop)
          /\ thread' = NoThread
          /\ Return
          /\ UNCHANGED frames

StringFails(m) ==
    /\ Match(m.lexeme)
    /\ \/ m.clause = "newline" /\ Fail("Broken_string", thread.opening)
       \/ /\ m.clause = "invalid"
          /\ Fail("Invalid_character_in_string", RegionOf(m.lexeme))
       \/ /\ m.clause = "badescape"
          /\ Fail("Undefined_escape_sequence", RegionOf(m.lexeme))
    /\ UNCHANGED <<text, streamVars>>

BlockContinues(m) ==
    /\ \/ m.clause = "other" /\ Extend(m.lexeme)
       \/ m.clause = "newline" /\ ExtendLine(m.lexeme)
    /\ Continue("block")
    /\ UNCHANGED frames

BlockOpens(m) ==
    /\ m.clause \in {"string", "block"}
    /\ Match(m.lexeme)
    /\ Move(Synced(m.lexeme))
    /\ thread' = [opening |-> RegionOf(m.lexeme), acc |-> thread.acc \o m.lexeme]
    /\ frames' = <<thread.opening>> \o frames
    /\ Continue(m.clause)

BlockCloses(m) ==
    /\ m.clause = "close"
    /\ \/ /\ frames # << >>
          /\ ResumeBlock(m.lexeme)
       \/ /\ frames = << >>
          /\ Match(m.lexeme)
          /\ LET stop == Synced(m.lexeme)
             IN  Push(Token("block", thread.acc \o m.lexeme,
                                     ThreadRegion(stop)), stop)
          /\ thread' = NoThread
          /\ Continue("scan")
          /\ UNCHANGED frames

LineContinues(m) ==
    /\ m.clause = "other"
    /\ Extend(m.lexeme)
    /\ Continue("line")
    /\ UNCHANGED frames

LineCloses(m) ==
    /\ m.clause = "newline"
    /\ MatchLine(m.lexeme)
    /\ LET stop == NewLine(pos, m.lexeme)
       IN  Push(Token("line", thread.acc \o m.lexeme,
                               ThreadRegion(stop)), stop)
    /\ thread' = NoThread
    /\ Continue("scan")
    /\ UNCHANGED frames

\* Strings and comments must be closed before the end of the file, line comments
\* too.
Unterminated ==
    /\ \/ pc = "string" /\ Fail("Unterminated_string", thread.opening)
       \/ pc \in {"block", "line"} /\ Fail("Unterminated_comment", thread.opening)
    /\ UNCHANGED <<text, at, buffer, streamVars>>

-----------------------------------------------------------------------------
(* The token stream.                                                        *)

streamUnchanged == <<text, at, thread, frames>>

\* Mutant: the scan starts with the positions left for the parser.
EnterUnpatched(from) ==
    /\ caller' = from
    /\ pc' = IF firstCall THEN "init" ELSE "scan"
    /\ UNCHANGED <<buffer, bufReg, firstCall>>

\* scan: the buffer's positions are those of the last match again.
EnterScan(from) ==
    /\ caller' = from
    /\ buffer' = bufReg
    /\ pc' = IF firstCall THEN "init" ELSE "scan"
    /\ UNCHANGED <<bufReg, firstCall>>

\* A client calls read_token.
Read ==
    /\ pc = "idle"
    /\ pc' = "read"
    /\ UNCHANGED <<streamUnchanged, buffer, state, error, streamVars>>

ReadScans ==
    /\ pc = "read" /\ IsEmptyQueue(units)
    /\ EnterScan("read")
    /\ UNCHANGED <<streamUnchanged, state, error, token, log, delivered>>

\* The tokens that must be followed by a break, and those that may not touch
\* one of them.
Breaking == {"int", "bytes", "ident", "string"}

ReadDequeues ==
    /\ pc = "read" /\ ~IsEmptyQueue(units)
    /\ LET d == Deq(units)
       IN  /\ log' = Append(log, d.item)
           /\ token' = d.item
           /\ units' = d.queue /\ last' = d.item.token.region
           /\ IF d.item.token.kind \in Breaking
              THEN EnterScan("check")
              ELSE /\ pc' = "deliver"
                   /\ UNCHANGED <<buffer, bufReg, firstCall, caller>>
    /\ UNCHANGED <<streamUnchanged, markup, pos, error, delivered>>

\* Mutant: a string may follow anything.
ContextErrorNoStrings(tok, next) ==
    CASE next.markup # << >> \/ next.token.kind \notin Breaking \ {"string"} -> "none"
      [] tok.kind = "bytes" /\ next.token.kind = "int" -> "Odd_lengthed_bytes"
      [] OTHER -> "Missing_break"

ContextError(tok, next) ==
    CASE next.markup # << >> \/ next.token.kind \notin Breaking -> "none"
      [] tok.kind = "bytes" /\ next.token.kind = "int" -> "Odd_lengthed_bytes"
      [] OTHER -> "Missing_break"

\* check_right_context, past next_token: peek the unit just scanned.
Check ==
    /\ pc = "check"
    /\ LET p    == Peek(units)
           fail == ContextError(token.token, p.item)
           stop == token.token.region.stop
       IN  /\ units' = p.queue
           /\ pc' = IF fail = "none" THEN "deliver" ELSE "failed"
           /\ error' = IF fail = "none" THEN error
                       ELSE [kind |-> fail, region |-> Region(stop, stop)]
    /\ UNCHANGED <<streamUnchanged, buffer, markup, last, pos, streamVars>>

\* Mutant: the parser finds the positions of the look-ahead.
DeliverUnpatched ==
    /\ pc = "deliver"
    /\ delivered' = Append(delivered, token)
    /\ pc' = IF token.token.kind = "eof" THEN "closed" ELSE "idle"
    /\ UNCHANGED <<streamUnchanged, state, error, buffer, bufReg, firstCall, caller,
                   token, log>>

\* read_token returns, the buffer's positions being those of the token.
Deliver ==
    /\ pc = "deliver"
    /\ buffer' = token.token.region
    /\ delivered' = Append(delivered, token)
    /\ pc' = IF token.token.kind = "eof" THEN "closed" ELSE "idle"
    /\ UNCHANGED <<streamUnchanged, state, error, bufReg, firstCall, caller, token, log>>

-----------------------------------------------------------------------------
\* The first longest match of the rule that runs.
Found == Longest(pc, Rest)

Rules(m) ==
    \/ /\ pc = "scan"
       /\ \/ ScanNewline(m) \/ ScanBlank(m) \/ ScanToken(m) \/ ScanError(m)
          \/ ScanOpening(m)
    \/ pc = "string" /\ (StringContinues(m) \/ StringCloses(m) \/ StringFails(m))
    \/ pc = "block" /\ (BlockContinues(m) \/ BlockOpens(m) \/ BlockCloses(m))
    \/ pc = "line" /\ (LineContinues(m) \/ LineCloses(m))

Scanning ==
    \/ InitRule
    \/ /\ pc \in {"scan", "string", "block", "line"}
       /\ \/ AtEof /\ (ScanEof \/ Unterminated)
          \/ ~AtEof /\ \E m \in {Found} : Rules(m)

Stream == ReadScans \/ ReadDequeues \/ Check \/ Deliver

Next == Read \/ Stream \/ Scanning

Spec == Init /\ [][Next]_vars

\* Once called, the lexer runs to its end; the client may never call again.
FairSpec == Spec /\ WF_vars(Stream \/ Scanning)

-----------------------------------------------------------------------------
(* Properties.                                                              *)

\* The position of the character n of the text, from the text alone: "\r\n"
\* is one line break.
LineEnds(n) ==
    {k \in 1..n : \/ text[k] = "\n"
                  \/ /\ text[k] = "\r"
                     /\ ~(k < Len(text) /\ text[k + 1] = "\n")}
PosAt(n) ==
    [cnum |-> n, lnum |-> 1 + Cardinality(LineEnds(n)), bol |-> Max(LineEnds(n) \union {0})]

\* A unit lies where its region says, with lines counted right.
Exact(u) ==
    LET first == u.region.start.cnum
    IN  /\ first + Len(Written(u)) <= Len(text)
        /\ u.region = Region(PosAt(first), PosAt(first + Len(Written(u))))
        /\ SubSeq(text, first + 1, first + Len(Written(u))) = Written(u)

\* The units scanned, oldest first: given to the logger, then still queued.
Units == log \o Contents(units)

\* The state of the lexer is well formed.  The rules call each other with the
\* frames they need, inside block comments only, and each construct is opened
\* after the one around it.
TypeOK ==
    /\ at \in 0..Len(text)
    /\ pc \in {"idle", "read", "init", "scan", "string", "block", "line", "check",
               "deliver", "closed", "failed"}
    /\ caller \in {"none", "read", "check"}
    /\ (frames # << >> => pc \in {"string", "block", "failed"})
    /\ \A i \in DOMAIN frames :
         frames[i].start.cnum < (<<thread.opening>> \o frames)[i].start.cnum
    /\ (pc = "failed") = (error # NoError)
    /\ (pc \in {"init", "scan"} => thread = NoThread)

\* Every token and every piece of markup lies where its region says it does,
\* character for character and with its line and column: across look-ahead,
\* nested comments, which must get their own opening back, and line breaks of
\* two characters (Lexer.mll sync, push_*, mk_*, scan_block).
RegionsExact ==
    \A i \in DOMAIN Units :
        /\ Exact(Units[i].token)
        /\ \A j \in DOMAIN Units[i].markup : Exact(Units[i].markup[j])

\* Between two calls, the lexing buffer shows the parser the region of the token
\* it has got, and get_last the same region, although more may have been
\* matched (Lexer.mll, the comment before open_token_stream).
ParserSeesReturnedToken ==
    pc = "idle" /\ delivered # << >> =>
        /\ buffer = Last(delivered).token.region
        /\ last = buffer

\* While a rule runs, the position of the lexing buffer, which the engine keeps,
\* and the logical position of the state agree, line and column included,
\* whatever was patched in between for the parser (patch_buffer, save_region).
RuleNames == {"init", "scan", "string", "block", "line"}
PositionsAgree ==
    pc \in RuleNames => buffer.stop = pos /\ pos.cnum = at

\* Nothing of the source is lost, repeated or reordered: the markup and tokens
\* given to the logger, queued or being scanned make up the text matched.
TextOf(unit) ==
    FlattenSeq([i \in DOMAIN unit.markup |-> Written(Reverse(unit.markup)[i])])
        \o Written(unit.token)
TextKept ==
    pc # "failed" =>
        FlattenSeq([i \in DOMAIN Units |-> TextOf(Units[i])])
            \o FlattenSeq([i \in DOMAIN markup |->
                             Written(Reverse(markup)[i])])
            \o thread.acc
          = SubSeq(text, 1, at)

\* Two tokens that need a break between them are never both returned when
\* nothing separates them (check_right_context), over any number of calls.
BreaksEnforced ==
    \A i \in 2..Len(delivered) :
        ~ /\ delivered[i].markup = << >>
          /\ delivered[i - 1].token.kind \in Breaking
          /\ delivered[i].token.kind \in Breaking

\* The look-ahead never runs away: at most one unit is queued, so that peek
\* shows check_right_context the unit that follows the token; between calls,
\* one is queued only behind a token that had to be checked.
OneTokenAhead ==
    /\ Len(Contents(units)) <= 1
    /\ pc = "idle" /\ ~IsEmptyQueue(units) => token.token.kind \in Breaking

\* Every call of read_token returns a token or raises an error.
ReadReturns == (pc = "read") ~> (pc \in {"idle", "closed", "failed"})
=============================================================================
