------------------------------ MODULE Requests ------------------------------
(***************************************************************************)
(* searchserver/HttpRequest.cpp and the functions that must agree with it: *)
(* ReadBody, which looks for the length of a body before ParseRequest      *)
(* does, and InvertedIndex::Tokenize, which makes the words that           *)
(* SplitTerms' terms are looked up among.                                  *)
(*                                                                         *)
(* A text is a sequence of characters, each a string.  A header line is    *)
(* its key in lower case, which both readers of it ignore, and the text    *)
(* behind its colon.                                                       *)
(***************************************************************************)
EXTENDS Integers, Sequences, SequencesExt

CONSTANTS
    Lower,      \* the letters and digits, each with its lower case
    MaxLong     \* the largest number an unsigned long holds, 2^64 - 1

ASSUME LowerAssumption ==
    /\ Lower \in [DOMAIN Lower -> DOMAIN Lower]
    /\ DOMAIN Lower \cap {"+", "%20", "="} = {}

ASSUME MaxLongAssumption == MaxLong \in Nat

Space == "space"    \* the character, by a name
Digits == <<"0", "1", "2", "3", "4", "5", "6", "7", "8", "9">>
DigitValue == [c \in Range(Digits) |-> SelectInSeq(Digits, LAMBDA d : d = c) - 1]

(* std::stoul skips spaces, needs a digit and stops behind the last one.   *)
NumberAt(s) == SelectInSeq(s, LAMBDA c : c # Space)
HasNumber(s) == NumberAt(s) > 0 /\ s[NumberAt(s)] \in Range(Digits)

Stoul(s) ==
    LET digits == {j \in DOMAIN s : \A k \in NumberAt(s) .. j : s[k] \in Range(Digits)}
        number[n \in 0 .. Len(s)] ==
            IF n = 0 THEN 0
            ELSE IF s[n] \in Range(Digits) THEN 10 * number[n - 1] + DigitValue[s[n]]
            ELSE number[n - 1]
    IN  number[Max(digits)]

-----------------------------------------------------------------------------
(* ReadBody takes the first "content-length:" in the headers, wherever it  *)
(* stands in a line, and reads no body unless a number follows.            *)
NamesLength(key) == key \in {"content-length", "x-content-length"}

ReadLength(lines) ==
    LET i == SelectInSeq(lines, LAMBDA l : NamesLength(l.key))
    IN  IF i = 0 \/ ~HasNumber(lines[i].text) THEN 0 ELSE Stoul(lines[i].text)

(* std::stoul throws out_of_range, and ReadBody meets it first.            *)
TooLong(lines) == ReadLength(lines) > MaxLong

(* ParseRequest takes what stands two characters behind the colon, of the  *)
(* last line with a key.                                                   *)
Field(lines, key) ==
    {Tail(lines[i].text) : i \in {j \in DOMAIN lines :
        /\ lines[j].key = key
        /\ \A k \in DOMAIN lines : k > j => lines[k].key # key}}

(* It throws where the colon is the last character of a line, and where    *)
(* Content-Length is no number, or too large a one.                        *)
ParseThrows(lines) ==
    \/ \E i \in DOMAIN lines : lines[i].text = <<>>
    \/ \E text \in Field(lines, "content-length") :
            ~HasNumber(text) \/ Stoul(text) > MaxLong

ParsedBody(lines, rest) ==
    IF Field(lines, "content-length") = {} THEN <<>>
    ELSE LET n == Stoul(CHOOSE text \in Field(lines, "content-length") : TRUE)
         IN  SubSeq(rest, 1, IF n < Len(rest) THEN n ELSE Len(rest))

SaysClose(lines) == Field(lines, "connection") = {<<"close">>}

(* How a client writes a header that every reader understands: a space,    *)
(* then the value, and at most one line that names a length.               *)
WellFormed(lines) ==
    /\ \A i \in DOMAIN lines :
        Len(lines[i].text) > 1 /\ lines[i].text[1] = Space /\ lines[i].text[2] # Space
    /\ \A i, j \in DOMAIN lines :
        NamesLength(lines[i].key) /\ NamesLength(lines[j].key) => i = j
    /\ \A i \in DOMAIN lines : NamesLength(lines[i].key) =>
        lines[i].key = "content-length" /\ HasNumber(lines[i].text)

-----------------------------------------------------------------------------
(* std::getline over the separators, without the empty pieces.             *)
Flush(p) == IF p.curr = <<>> THEN p.res ELSE Append(p.res, p.curr)

Pieces(s, separators) ==
    LET cut[n \in 0 .. Len(s)] ==
            IF n = 0 THEN [res |-> <<>>, curr |-> <<>>]
            ELSE IF s[n] \in separators
            THEN [res |-> Flush(cut[n - 1]), curr |-> <<>>]
            ELSE [cut[n - 1] EXCEPT !.curr = Append(@, s[n])]
    IN  Flush(cut[Len(s)])

IsWordChar(c) == c \in DOMAIN Lower
Lowered(s) == [i \in DOMAIN s |-> IF IsWordChar(s[i]) THEN Lower[s[i]] ELSE s[i]]

(* Query text behind the first "=" splits at "+" and "%20" only, indexed   *)
(* text at everything that is neither a letter nor a digit.                *)
Behind(query) ==
    SubSeq(query, SelectInSeq(query, LAMBDA c : c = "=") + 1, Len(query))

SplitTerms_Keeps(query) == Pieces(Behind(query), {"+", "%20"})  \* folds no case
SplitTerms(query) == Pieces(Lowered(Behind(query)), {"+", "%20"})

Tokenize(text) == Pieces(Lowered(text), Range(text) \ DOMAIN Lower)
=============================================================================
