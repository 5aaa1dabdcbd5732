----------------------------- MODULE MCCompressor -----------------------------
(***************************************************************************)
(* Every text of at most MaxPieces pieces, written one piece at a time,    *)
(* and what Ingest makes of it, against what the words say themselves.     *)
(***************************************************************************)
EXTENDS Compressor

CONSTANTS Pieces,       \* words, and lines, that texts are made of
          MaxPieces     \* bound on the texts tried

ASSUME PiecesTyped == Pieces \subseteq Seq(Source) /\ MaxPieces \in Nat

VARIABLES
  text,
  made,     \* what Ingest may make of it, for each type of content
  pieces    \* how many pieces have been written

Ingests(words) == [c \in ContentTypes |-> Ingest(c, words)]

Init == text \in Pieces /\ made = Ingests(text) /\ pieces = 1

Write(piece) ==
  /\ pieces < MaxPieces
  /\ pieces' = pieces + 1
  /\ text' = text \o piece
  /\ made' = Ingests(text \o piece)

Next == \E piece \in Pieces : Write(piece)

Spec == Init /\ [][Next]_<<text, made, pieces>>

(* Words of redaction one by one, and lines of a log and of a trace.       *)
MCPieces ==
  {<<w>> : w \in Source \ {"error", "call"}} \cup
  {<<"error", "newline">>, <<"plain", "error", "newline">>, <<"call", "newline">>}

(* "error" has a character of two bytes.                                   *)
MCSpelling ==
  [w \in Words \cup Space |->
     IF w = "error" THEN <<"lead", "tail", "ascii">>
     ELSE IF w = "newline" THEN << >> ELSE Ascii(1)]

Ingested == UNION {made[c] : c \in ContentTypes}

(* What is stored of the text itself, and reported of it.                  *)
Stored == {[raw |-> o.raw, findings |-> o.findings] : o \in Ingested}

-----------------------------------------------------------------------------
(* Place i is in a key: from a begin to the next end.                      *)
InKey(words, i) ==
  \E b \in 1 .. i, e \in i .. Len(words) :
    /\ words[b] = "begin" /\ words[e] = "end"
    /\ \A j \in b .. (e - 1) : words[j] # "end"

(* Place i is the first of a key.                                          *)
OpensKey(words, i) ==
  /\ InKey(words, i)
  /\ i = 1 \/ ~InKey(words, i - 1) \/ words[i - 1] = "end"

(* Place j comes next after place i, but for space and what is gone.       *)
Follows(words, j, i) ==
  i < j /\ \A k \in (i + 1) .. (j - 1) : words[k] \in {"newline", "blank", "gone"}

(* The places that the patterns may take: keys, tokens, keywords and what  *)
(* follows a keyword.                                                      *)
Exposed(words, i) ==
  \/ InKey(words, i)
  \/ words[i] \in Keywords \cup {"jwt"}
  \/ \E k \in 1 .. (i - 1) : words[k] \in Keywords /\ Follows(words, i, k)

(* Redaction takes keys and secrets and nothing else: what is neither, nor *)
(* follows a keyword, is still there, in its place among the others; of a  *)
(* private key only its mark may be left, even when another pattern takes  *)
(* the mark (redactor.go:17, 26-36).  The report counts each key once, of  *)
(* the other patterns each mark that is left, and no match without a word  *)
(* of its own to begin with (redactor.go:29-34, service.go:180-185).       *)
RedactionIsExact ==
  \A o \in Stored :
    /\ \A i \in DOMAIN text :
         /\ ~Exposed(text, i) => o.raw[i] = text[i]
         /\ InKey(text, i) => o.raw[i] \in Marks \cup Nothing
    /\ o.findings[1] = Cardinality({i \in DOMAIN text : OpensKey(text, i)})
    /\ \A k \in DOMAIN Patterns :
         /\ Occurs(o.raw, Patterns[k].mark) <= o.findings[k]
         /\ o.findings[k] <= Cardinality({i \in Places(text, Patterns[k].from) :
                                            ~InKey(text, i) \/ OpensKey(text, i)})

(* What a keyword takes.                                                   *)
Taken(w) ==
  CASE w = "bearer" -> Tokenlike [] w = "password:" -> Words [] w = "token:" -> Long

(* A pattern takes something of this that is not a mark already.           *)
Leaks(words) ==
  \/ "jwt" \in ToSet(words)
  \/ \E i, j \in DOMAIN words : i < j /\ words[i] = "begin" /\ words[j] = "end"
  \/ \E i, j \in DOMAIN words :
       /\ words[i] \in Keywords /\ Follows(words, j, i)
       /\ words[j] \in Taken(words[i]) \ Marks

(* What is stored as redacted has nothing in it that the patterns take, so *)
(* that ingesting what was retrieved takes marks at most.  No line of the  *)
(* summary and no signal has either, unless the text had a keyword behind  *)
(* an escape sequence, which the patterns do not see and the compressors   *)
(* remove (service.go:165-178, compressor.go:40).                          *)
SecretsStayOut ==
  /\ \A o \in Stored : ~Leaks(o.raw)
  /\ "escaped-password:" \notin ToSet(text) =>
       \A o \in Ingested :
         \A line \in ToSet(o.listed) \cup {s.text : s \in ToSet(o.signals)} : ~Leaks(line)

(* "redact -> classify -> deterministic compressor" (architecture.md:14):  *)
(* what a compressor lists, before limit() cuts the summary, and of lines  *)
(* as they read trimmed.  A log's list does not depend on the order in     *)
(* which Go walks its map, and leaves out the least of the diagnostics: if *)
(* one is missing the list is full, and what it lists occurs more often,   *)
(* or as often and earlier (compressor.go:73-86).  A trace keeps its first *)
(* frames: if one is missing the list is full of lines from above it, each *)
(* listed once (compressor.go:112-126).                                    *)
LeavesOutTheLeast ==
  /\ Cardinality(made["log"]) = 1
  /\ \A o \in made["log"] :
       LET lines == LinesOf(o.raw)
       IN  \A l \in {l \in ToSet(lines) : Interesting(l)} \ ToSet(o.listed) :
             /\ Len(o.listed) = MaxHits
             /\ \A s \in ToSet(o.signals) :
                  \/ Occurs(lines, s.text) > Occurs(lines, l)
                  \/ /\ Occurs(lines, s.text) = Occurs(lines, l)
                     /\ \A i \in Places(lines, l) : s.line < i
  /\ \A o \in made["stack_trace"] :
       LET lines == LinesOf(o.raw)
       IN  /\ IsInjective(o.listed)
           /\ \A i \in DOMAIN lines :
                Frame(lines[i]) /\ lines[i] \notin ToSet(o.listed) =>
                  /\ Len(o.signals) = MaxFrames
                  /\ \A k \in DOMAIN o.signals : o.signals[k].line < i

(* A signal leads to its line: in what is stored as redacted always; and   *)
(* in the original, which StoreRawMode "original" stores, what is left of  *)
(* line n is what is left in line n, as far as no match has taken a line   *)
(* break before it: a private key does, and so does a keyword at the end   *)
(* of a line, whose value is the first word after it (redactor.go:17-22,   *)
(* compressor.go:96, 125, 208).                                            *)
SignalsPointHome ==
  \A o \in Ingested :
    LET lines == LinesOf(o.raw) IN
    \A s \in ToSet(o.signals) :
    /\ s.text = lines[s.line]
    /\ \A i \in DOMAIN text :
         /\ o.raw[i] \notin {"newline", "gone"}
         /\ \A j \in Places(text, "newline") : j < i => o.raw[j] = "newline"
         => (i \in Visible(o.raw, s.line) <=> LineOf(text, i) = s.line)

(* The summary takes at most the budget and its mark of truncation, and    *)
(* only where the cut falls on a character of several bytes does it end in *)
(* a part of one, which Postgres refuses (compressor.go:42-51).            *)
SummaryFits ==
  \A o \in Ingested :
    LET bytes == o.summary
        broken == \E i \in DOMAIN bytes : bytes[i] = "lead" /\
                    (i = Len(bytes) \/ bytes[i + 1] # "tail")
    IN  /\ Tokens(bytes) <= (Budget + TruncatedBytes) \div 4
        /\ broken => /\ Len(Render(o.listed)) > Budget
                     /\ Render(o.listed)[Budget + 1] = "tail"

=============================================================================
