---------------------------- MODULE DialDataText ----------------------------
(***************************************************************************)
(* How a table of additional data becomes the text of a file and a table   *)
(* again (gdial-util.c).  A text is a sequence of characters; a key and a  *)
(* value are texts, and a table is a function from keys to values.  All    *)
(* that the conversions tell apart is whether a character is white space,  *)
(* so a few graphic characters stand for all of them.                      *)
(***************************************************************************)
EXTENDS Naturals, Sequences, SequencesExt

CONSTANT MaxKvLen       \* GDIAL_APP_DIAL_DATA_MAX_KV_LEN

ASSUME MaxKvLenAssumption == MaxKvLen \in Nat \ {0}

Space == {"sp", "cr", "lf"}

NoPairs == [k \in {} |-> <<>>]

\* One line of the text: "%s%s%s%s" with a blank and the end of the line.
Line(k, v) == k \o <<"sp">> \o v \o <<"cr", "lf">>

\* gdial_util_str_str_hashtable_to_string: the texts of table t, one for each
\* order in which the hash table may be walked.
TableToString(t) ==
  {FlattenSeq([i \in DOMAIN order |-> Line(order[i], t[order[i]])]) :
     order \in SetToSeqs(DOMAIN t)}

\* "%255s" of sscanf: white space is skipped, then characters are taken up to
\* the next white space or the maximal width.  An empty word is a failure.
ScanWord(s) ==
  LET text  == SelectInSeq(s, LAMBDA c : c \notin Space)
      from  == IF text = 0 THEN <<>> ELSE SubSeq(s, text, Len(s))
      space == SelectInSeq(from, LAMBDA c : c \in Space)
      size  == IF space = 0 THEN Len(from) ELSE space - 1
      len   == IF size > MaxKvLen THEN MaxKvLen ELSE size
  IN  [word |-> SubSeq(from, 1, len), rest |-> SubSeq(from, len + 1, Len(from))]

\* used += strlen(key) + strlen(value) + strlen(" \r\n")
Advance(used, key, value) == used + Len(key) + Len(value) + 3

\* The loop of gdial_util_str_str_hashtable_from_string.  If only the key is
\* found, value still holds what it held before.
RECURSIVE ScanPairs(_, _, _, _)
ScanPairs(s, used, value, t) ==
  LET first  == ScanWord(SubSeq(s, used + 1, Len(s)))
      second == ScanWord(first.rest)
      found  == IF second.word = <<>> THEN value ELSE second.word
  IN  IF used >= Len(s) \/ first.word = <<>> THEN t
      ELSE ScanPairs(s, Advance(used, first.word, found), found,
                     [k \in DOMAIN t \cup {first.word} |->
                        IF k = first.word THEN found ELSE t[k]])

TableFromString(s) == ScanPairs(s, 0, <<>>, NoPairs)

\* A word that the format can carry: not empty, not too long, no white space.
Word(w) == Len(w) \in 1..MaxKvLen /\ \A i \in DOMAIN w : w[i] \notin Space

PlainTable(t) == \A k \in DOMAIN t : Word(k) /\ Word(t[k])
=============================================================================
