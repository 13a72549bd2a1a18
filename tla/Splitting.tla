-------------------------------- MODULE Splitting --------------------------------
(***************************************************************************)
(* The last steps of chunking: a short chunk is merged with the one before *)
(* it, and a chunk of more tokens than the embedder takes is split at      *)
(* words.  A word is its number of characters; a chunk is its words and    *)
(* the characters between them beyond one for each gap, a chunk without    *)
(* words those of its blanks.  Metadata is left out.  The chunker, and an  *)
(* embedder that counts tokens another way, are external.                  *)
(***************************************************************************)
EXTENDS Integers, Sequences, SequencesExt

CONSTANTS MinChunk,   \* a chunk of fewer characters is short
          MaxMerge,   \* characters of a merged chunk
          MaxInput,   \* tokens the embedder takes
          Sample,     \* words of the sample
          WordSizes,
          Blanks,     \* characters between the words of a chunk beyond the gaps
          MaxWords, MaxChunks  \* bounds: words of a chunk, chunks

ASSUME SplittingAssumption ==
    /\ {MaxInput, Sample} \subseteq Nat \ {0} /\ {MinChunk, MaxMerge, MaxWords, MaxChunks} \subseteq Nat
    /\ WordSizes \subseteq Nat \ {0} /\ Blanks \subseteq Nat

VARIABLES
    chunks,  \* what the chunker made
    mergeds, \* after the merge
    scan,    \* the step, the next chunk, and the search in a chunk that is split
    sized    \* the result so far

spVars == <<chunks, mergeds, scan, sized>>

Chunks == [words : UNION {[1..n -> WordSizes] : n \in 0..MaxWords}, blank : Blanks]
AtStart == [at |-> "merge", next |-> 1, start |-> 0, part |-> 0, lo |-> 0, hi |-> 0]

Chars(words) == FoldSeq(LAMBDA w, sum : w + sum, Len(words) - 1, words)
Size(c) == IF c.words = <<>> THEN c.blank ELSE Chars(c.words) + c.blank
Least(m, n) == IF m < n THEN m ELSE n
Tokens(size) == IF size < 3 THEN 1 ELSE size \div 3
Fits(words) == Tokens(Chars(words)) <= MaxInput

Scans(r) == scan' = r
Doc == mergeds[scan.next]
Words == Doc.words
Piece(k) == SubSeq(Words, scan.start + 1, scan.start + k)

-----------------------------------------------------------------------------
(* _merge_short_chunks *)

\* A chunk of blanks is stripped to nothing by the merge that follows it.
Joined(prev, c) ==
    [words |-> prev.words \o c.words,
     blank |-> c.blank + (IF prev.words = <<>> THEN 2 ELSE prev.blank + 1)]

Short(c) == c.words # <<>> /\ Size(c) < MinChunk

MergeNext ==
    /\ scan.at = "merge" /\ scan.next <= Len(chunks)
    /\ LET c == chunks[scan.next]
       IN  mergeds' = IF /\ Short(c) /\ mergeds # <<>>
                         /\ Size(Last(mergeds)) + Size(c) + 2 <= MaxMerge
                      THEN Append(Front(mergeds), Joined(Last(mergeds), c))
                      ELSE Append(mergeds, c)
    /\ Scans([scan EXCEPT !.next = @ + 1])
    /\ UNCHANGED <<chunks, sized>>

EndMerge ==
    /\ scan.at = "merge" /\ scan.next > Len(chunks)
    /\ Scans([AtStart EXCEPT !.at = "size"])
    /\ UNCHANGED <<chunks, mergeds, sized>>

-----------------------------------------------------------------------------
(* split_oversized, split_to_budget *)

\* A chunk that fits is kept; one without words cannot be split.
SizeNext ==
    /\ scan.at = "size" /\ scan.next <= Len(mergeds)
    /\ IF Tokens(Size(Doc)) <= MaxInput \/ Words = <<>>
       THEN /\ sized' = Append(sized, Doc)
            /\ Scans([scan EXCEPT !.next = @ + 1])
       ELSE /\ Scans([scan EXCEPT !.at = "guess", !.start = 0])
            /\ UNCHANGED sized
    /\ UNCHANGED <<chunks, mergeds>>

\* The words of a piece, from the tokens of the sample.
PerPiece ==
    LET sample == SubSeq(Words, 1, Least(Sample, Len(Words)))
        words == (MaxInput * Len(sample)) \div Tokens(Chars(sample))
    IN  IF words = 0 THEN 1 ELSE words

Guessed == Least(PerPiece, Len(Words) - scan.start)

\* Mutant of Guess: the guess is taken without measuring it.
GuessBlindly ==
    /\ scan.at = "guess"
    /\ Scans([scan EXCEPT !.at = "take", !.part = Guessed, !.lo = Guessed, !.hi = Guessed])
    /\ UNCHANGED <<chunks, mergeds, sized>>

Guess ==
    /\ scan.at = "guess"
    /\ Scans(IF Fits(Piece(Guessed))
             THEN [scan EXCEPT !.at = "take", !.part = Guessed, !.lo = Guessed, !.hi = Guessed]
             ELSE [scan EXCEPT !.at = "refine", !.part = Guessed, !.lo = 0, !.hi = Guessed])
    /\ UNCHANGED <<chunks, mergeds, sized>>

\* The longest prefix that fits, by bisection.
Refine ==
    /\ scan.at = "refine"
    /\ LET mid == (scan.lo + scan.hi + 1) \div 2
       IN  Scans(IF scan.lo >= scan.hi THEN [scan EXCEPT !.at = "take"]
                 ELSE IF Fits(Piece(mid)) THEN [scan EXCEPT !.lo = mid]
                 ELSE [scan EXCEPT !.hi = mid - 1])
    /\ UNCHANGED <<chunks, mergeds, sized>>

\* A single word that does not fit is a chunk of its own.
Take ==
    /\ scan.at = "take"
    /\ LET k == IF scan.lo = 0 THEN 1 ELSE scan.lo
           all == scan.start + k = Len(Words)
       IN  /\ sized' = Append(sized, [words |-> Piece(k), blank |-> 0])
           /\ Scans(IF all THEN [AtStart EXCEPT !.at = "size", !.next = scan.next + 1]
                    ELSE [AtStart EXCEPT !.at = "guess", !.next = scan.next,
                                         !.start = scan.start + k])
    /\ UNCHANGED <<chunks, mergeds>>

-----------------------------------------------------------------------------
spInit ==
    /\ chunks \in UNION {[1..n -> Chunks] : n \in 0..MaxChunks}
    /\ mergeds = <<>> /\ sized = <<>>
    /\ scan = AtStart

spNext == MergeNext \/ EndMerge \/ SizeNext \/ Guess \/ Refine \/ Take
spSpec == spInit /\ [][spNext]_spVars

-----------------------------------------------------------------------------
(* Properties. *)

AllWords(cs) == FlattenSeq([i \in DOMAIN cs |-> cs[i].words])
InMerge(c) == c \notin Range(chunks)

\* No word is lost, repeated or moved by the merge and the split, at any step.  A
\* merge makes no chunk larger than what the chunker may make.  What comes out is
\* within the embedder's limit, a single word or blanks, and what was within it has
\* not been touched.
Split ==
    LET done == SubSeq(mergeds, 1, scan.next - 1)
        inPart == IF scan.at \in {"guess", "refine", "take"} THEN SubSeq(Words, 1, scan.start) ELSE <<>>
    IN  /\ \A i \in DOMAIN mergeds : InMerge(mergeds[i]) => Size(mergeds[i]) <= MaxMerge
        /\ scan.at = "merge" => AllWords(mergeds) = AllWords(SubSeq(chunks, 1, scan.next - 1))
        /\ scan.at # "merge" =>
             /\ AllWords(mergeds) = AllWords(chunks)
             /\ AllWords(sized) = AllWords(done) \o inPart
             /\ \A i \in DOMAIN sized :
                  Tokens(Size(sized[i])) <= MaxInput \/ Len(sized[i].words) <= 1
             /\ \A c \in Range(done) : Tokens(Size(c)) <= MaxInput => c \in Range(sized)
=============================================================================
