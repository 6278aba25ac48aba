------------------------------- MODULE ReportText -------------------------------
(***************************************************************************)
(* The PDF report: WritePDF makes lines of the findings and instances, and *)
(* writePDFLines makes pages of the lines and numbered objects of the      *)
(* pages, with a table of where each object begins.                        *)
(***************************************************************************)
EXTENDS Naturals, Sequences, FiniteSetsExt, SequencesExt

CONSTANTS
  PerPage,       \* lines of a page (54)
  Width,         \* bytes of a wrapped line (100)
  MaxShown,      \* findings that are shown (40)
  Heads,         \* lines before the findings (7)
  Explanations,  \* what findings may be explained with: sequences of words,
                 \* a word being its number of bytes
  MaxFindings,   \* bound: findings in the store
  MaxInstances   \* bound: instances

\* Assumed of the constants by the modules that give them values.
SizeAssumption == PerPage \in Nat \ {0} /\ Width \in Nat /\ MaxShown \in Nat /\ Heads \in Nat
WordsAssumption == Explanations \subseteq Seq(Nat)
BoundAssumption == MaxFindings \in Nat /\ MaxInstances \in Nat

VARIABLES
  findings,   \* the explanations of the findings, most severe first
  instances,  \* how many instances there are
  pc,         \* "findings", "instances", "pages" or "done"
  lines,      \* the lines of the report
  objects,    \* the objects of the document
  pageNums,   \* the numbers of the page objects
  offsets     \* where the table says each object begins

vars == <<findings, instances, pc, lines, objects, pageNums, offsets>>

-----------------------------------------------------------------------------
(***************************************************************************)
(* The lines.                                                              *)
(***************************************************************************)
Bytes(words) == IF words = << >> THEN 0
                ELSE MapThenSumSet(LAMBDA k : words[k] + 1, DOMAIN words) - 1

\* Faulty variant: the word that does not fit is left out.
WrapLosing(words) ==
  LET at[n \in 0 .. Len(words)] ==
        IF n = 0 THEN [out |-> << >>, cur |-> << >>]
        ELSE LET s == at[n - 1]
             IN  IF Bytes(s.cur) + words[n] + 1 > Width
                 THEN [out |-> Append(s.out, s.cur), cur |-> << >>]
                 ELSE [s EXCEPT !.cur = Append(@, words[n])]
      end == at[Len(words)]
  IN  IF end.cur = << >> THEN end.out ELSE Append(end.out, end.cur)

\* wrap: at[n] is what has been put out, and the line at hand, after n words.
wrap(words) ==
  LET at[n \in 0 .. Len(words)] ==
        IF n = 0 THEN [out |-> << >>, cur |-> << >>]
        ELSE LET s == at[n - 1]
             IN  IF Bytes(s.cur) + words[n] + 1 > Width
                 THEN [out |-> Append(s.out, s.cur), cur |-> <<words[n]>>]
                 ELSE [s EXCEPT !.cur = Append(@, words[n])]
      end == at[Len(words)]
  IN  IF end.cur = << >> THEN end.out ELSE Append(end.out, end.cur)

Text(kind, n, words) == [kind |-> kind, of |-> n, words |-> words]

Shown == Min({Len(findings), MaxShown})

\* The most severe findings, each a title and its wrapped explanation.
WriteFindings ==
  /\ pc = "findings"
  /\ pc' = "instances"
  /\ lines' = lines \o FlattenSeq([n \in 1 .. Shown |->
       <<Text("title", n, << >>)>>
         \o [k \in DOMAIN wrap(findings[n]) |-> Text("text", n, wrap(findings[n])[k])]])
  /\ UNCHANGED <<findings, instances, objects, pageNums, offsets>>

WriteInstances ==
  /\ pc = "instances"
  /\ pc' = "pages"
  /\ lines' = lines \o <<Text("blank", 0, << >>), Text("head", 0, << >>)>>
                    \o [n \in 1 .. instances |-> Text("instance", n, << >>)]
  /\ UNCHANGED <<findings, instances, objects, pageNums, offsets>>

-----------------------------------------------------------------------------
(***************************************************************************)
(* The document: catalog, page tree, font, then two objects for each page. *)
(***************************************************************************)
Object(kind) == [kind |-> kind, text |-> << >>, refs |-> << >>]

FontNum    == 3
CatalogNum == 1
PagesNum   == 2

\* The lines that are not on a page yet begin behind those that are.
Paged == PerPage * Len(pageNums)

\* Faulty variant: the page is written before its content, and refers to the
\* number it has itself.
AddPageFirst ==
  /\ pc = "pages"
  /\ Paged < Len(lines)
  /\ LET text == SubSeq(lines, Paged + 1, Min({Paged + PerPage, Len(lines)}))
         num  == Len(objects) + 1
     IN  /\ objects' = objects \o <<[Object("page") EXCEPT !.refs = <<PagesNum, num, FontNum>>],
                                    [Object("content") EXCEPT !.text = text]>>
         /\ pageNums' = Append(pageNums, num)
  /\ UNCHANGED <<findings, instances, pc, lines, offsets>>

AddPage ==
  /\ pc = "pages"
  /\ Paged < Len(lines)
  /\ LET text == SubSeq(lines, Paged + 1, Min({Paged + PerPage, Len(lines)}))
         num  == Len(objects) + 1
     IN  /\ objects' = objects \o <<[Object("content") EXCEPT !.text = text],
                                    [Object("page") EXCEPT !.refs = <<PagesNum, num, FontNum>>]>>
         /\ pageNums' = Append(pageNums, num + 1)
  /\ UNCHANGED <<findings, instances, pc, lines, offsets>>

\* How much of the file an object takes: what counts is that it depends on it.
Size(o) == 1 + Len(o.text) + Len(o.refs)

\* The first objects are filled in, and only then is anything measured.
Finish ==
  /\ pc = "pages"
  /\ Paged >= Len(lines)
  /\ pc' = "done"
  /\ objects' = [objects EXCEPT ![CatalogNum].refs = <<PagesNum>>, ![PagesNum].refs = pageNums]
  /\ offsets' = [n \in DOMAIN objects |->
                   MapThenSumSet(LAMBDA k : Size(objects'[k]), 1 .. n - 1)]
  /\ UNCHANGED <<findings, instances, lines, pageNums>>

-----------------------------------------------------------------------------
Init ==
  /\ findings \in UNION {[1 .. n -> Explanations] : n \in 0 .. MaxFindings}
  /\ instances \in 0 .. MaxInstances
  /\ pc = "findings"
  /\ lines = [n \in 1 .. Heads |-> Text("head", n, << >>)]
  /\ objects = <<Object("catalog"), Object("pages"), Object("font")>>
  /\ pageNums = << >>
  /\ offsets = << >>

Next == WriteFindings \/ WriteInstances \/ AddPage \/ Finish

Spec == Init /\ [][Next]_vars

-----------------------------------------------------------------------------
Done == pc = "done"

\* The text a reader finds who starts at the root of the document and follows
\* the numbers it holds.
Reading ==
  LET kids == objects[objects[CatalogNum].refs[1]].refs
  IN  [n \in DOMAIN kids |-> objects[objects[kids[n]].refs[2]].text]

\* Following the references from the root gives all lines, in order and once,
\* on pages that are not too long; the pages are pages and have a font
\* (writePDFLines).
PdfIsWhole ==
  Done =>
    /\ FlattenSeq(Reading) = lines
    /\ \A n \in DOMAIN Reading : Len(Reading[n]) \in 1 .. PerPage
    /\ \A n \in DOMAIN pageNums :
         /\ objects[pageNums[n]].kind = "page"
         /\ objects[objects[pageNums[n]].refs[3]].kind = "font"
    /\ \A n \in DOMAIN objects :
         offsets[n] = MapThenSumSet(LAMBDA k : Size(objects[k]), 1 .. n - 1)

\* The words that the lines about the n-th finding hold.
WordsAbout(n) ==
  FlattenSeq([k \in DOMAIN lines |->
    IF lines[k].kind = "text" /\ lines[k].of = n THEN lines[k].words ELSE << >>])

\* The lines about a finding have all words of its explanation, and a line is
\* only too long if it is one word (WritePDF, wrap).
ExplanationsAreWhole ==
  Done =>
    /\ \A n \in 1 .. Shown : WordsAbout(n) = findings[n]
    /\ \A k \in DOMAIN lines : lines[k].kind = "text" =>
         Bytes(lines[k].words) <= Width \/ Len(lines[k].words) = 1
=============================================================================
