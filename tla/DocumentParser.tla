--------------------------- MODULE DocumentParser ---------------------------
(***************************************************************************)
(* services/document_parser.py: an upload becomes one text with an anchor  *)
(* for each paragraph.  An upload is its kind and its pages, each page a   *)
(* sequence of blocks and a block a text; plain text is one page.  Where a *)
(* block sits on its page, and hyphens at the end of a line, are left out. *)
(***************************************************************************)
EXTENDS Prose

CONSTANTS
  MaxPages, MaxChars,   \* limits, the second in items
  MinBlockWords,        \* _MIN_WORDS_PER_BLOCK
  MinPages,             \* pages before a repeated block is taken for a running header
  HeaderLimit,          \* 160 characters, in items: a longer block is never a header
  KeyLimit              \* 120 characters, in items: what of a block tells headers apart

\* An upload: pages of blocks of items; plain text is at least one page.
ItemsOf(u) == UNION {Range(b) : b \in UNION {Range(page) : page \in Range(u.pages)}}
IsDocument(u) == u.pages \in Seq(Seq(Seq(ItemsOf(u)))) /\ (u.kind = "text" => u.pages # <<>>)

IsHeading(b) == Len(b) <= 3 /\ \E i \in DOMAIN b : b[i].kind = "heading" /\ \A j \in DOMAIN b :
                  j = i \/ (j < i /\ b[j].kind \in {"digits", "stop"}) \/ (j > i /\ b[j].kind = "stop")

\* _PAGE_NUMBER_RE: `3`, `page 3`, `3 of 12`, `page 3/12`.
IsPageNumber(b) ==
  LET numbers == IF b # <<>> /\ Head(b).norm = "page" THEN Tail(b) ELSE b
  IN  /\ Len(numbers) \in {1, 3} /\ numbers[1].kind = "digits"
      /\ Len(numbers) = 3 => numbers[2].norm \in {"of", "/"} /\ numbers[3].kind = "digits"

\* _clean_block() and _unwrap(): every break of a PDF's line goes; in plain text, one that
\* ends no sentence and is followed by a lower-case letter or a digit.
Clean(b) == Those(b, {x \in Range(b) : x.kind # "line"})
Unwrap(b) ==
  LET wraps == {i \in DOMAIN b : /\ b[i].kind = "line"
                                 /\ KindAt(b, i - 1) \notin Ends
                                 /\ KindAt(b, i + 1) \in {"word", "abbreviation", "digits", "heading"}}
      kept  == Places(Len(b), DOMAIN b \ wraps)
  IN  [i \in DOMAIN kept |-> b[kept[i]]]

\* _pdf_blocks(): the blocks of a page that have words enough or open a reference list.
Readable(page) ==
  LET cleaned == [i \in DOMAIN page |-> Clean(page[i])]
  IN  Those(cleaned, {b \in Range(cleaned) : b # <<>> /\ (Len(Tokens(b)) >= MinBlockWords \/ IsHeading(b))})

\* _norm_key(): page and section numbers in a header do not tell two of them apart.
HeaderKey(b) ==
  [i \in 1 .. Min({KeyLimit, Len(b)}) |-> IF b[i].kind = "digits" THEN "#" ELSE b[i].norm]

\* _repeated_boilerplate()
Threshold(n) == Max({3, n \div 2})
RunningHeaders(pages) ==
  IF Len(pages) < MinPages THEN {}
  ELSE LET on == [p \in DOMAIN pages |->
                    {HeaderKey(b) : b \in {c \in Range(pages[p]) : Len(c) <= HeaderLimit}}]
       IN  {k \in UNION Range(on) :
              Cardinality({p \in DOMAIN pages : k \in on[p]}) >= Threshold(Len(pages))}

PdfBlocks(pages) ==
  LET read    == [p \in DOMAIN pages |-> Readable(pages[p])]
      headers == RunningHeaders(read)
      prose(p) == Those(read[p], {b \in Range(read[p]) : HeaderKey(b) \notin headers /\ ~IsPageNumber(b)})
  IN  FlattenSeq([p \in DOMAIN read |->
        [i \in DOMAIN prose(p) |-> [page |-> p, text |-> prose(p)[i]]]])

TextBlocks(pages) == [i \in DOMAIN pages[1] |-> [page |-> 0, text |-> Unwrap(pages[1][i])]]

Blocks(u) ==
  CASE u.kind = "pdf" -> PdfBlocks(u.pages) [] u.kind = "text" -> TextBlocks(u.pages) [] OTHER -> <<>>

\* _exclude_reference_list(): all from the last such heading on, if it comes late enough.
BodyLength(blocks) ==
  LET heads == {i \in DOMAIN blocks : IsHeading(blocks[i].text)}
      last  == Max(heads)
  IN  IF Len(blocks) < 5 \/ heads = {} THEN Len(blocks)
      ELSE IF 10 * (last - 1) < 6 * Len(blocks) THEN Len(blocks) ELSE last - 1

\* _assemble(): the blocks, each with the two line breaks that separate it from the next.
Line == [kind |-> "line", norm |-> ""]
Assemble(blocks) ==
  LET end[i \in 0 .. Len(blocks)] == IF i = 0 THEN 0 ELSE end[i - 1] + Len(blocks[i].text) + 2
  IN  [text |-> FlattenSeq([i \in DOMAIN blocks |-> blocks[i].text \o <<Line, Line>>]),
       paragraphs |-> [i \in DOMAIN blocks |->
                         [page |-> blocks[i].page, start |-> end[i - 1] + 1, end |-> end[i] - 2]]]

\* parse_document()
Exceeds(u) == u.kind = "pdf" /\ Len(u.pages) > MaxPages
Parsed(u) == LET b == Blocks(u) IN Assemble(SubSeq(b, 1, BodyLength(b)))
TooLong(u) == Exceeds(u) \/ Len(Parsed(u).text) > MaxChars
IsReadable(u) == \E i \in DOMAIN Parsed(u).text : Parsed(u).text[i].kind # "line"
=============================================================================
