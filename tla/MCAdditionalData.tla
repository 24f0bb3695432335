-------------------------- MODULE MCAdditionalData --------------------------
(* AdditionalData with the texts of DialDataText.  The tables have none, one, *)
(* two and three pairs, with words of the maximal length and keys that begin  *)
(* like another one; they are written in every order of their pairs.          *)
EXTENDS AdditionalData, DialDataText

MCTables ==
  {NoPairs,
   <<"x">> :> <<"y">>,
   <<"x">> :> <<"x">> @@ <<"y", "y">> :> <<"x">>,
   <<"y">> :> <<"y", "x">> @@ <<"x">> :> <<"y">> @@ <<"x", "y">> :> <<"y">>}

\* With a value that is empty, or has a blank.
MCAnyTables ==
  {NoPairs, <<"x">> :> <<>> @@ <<"y">> :> <<"x">>, <<"x">> :> <<"x", "sp", "y">>}

-----------------------------------------------------------------------------
\* A file that was cut off by a failed write or a crash is read as the table
\* that was posted, as far as it goes, with at most one pair that was not
\* posted: the last one, whose key or value is cut off.
CutSpoilsOnePair ==
  \A n \in Name : file[n] # NoFile =>
    LET read == TableFromString(file[n])
        Wrong(t) == {k \in DOMAIN read : k \notin DOMAIN t \/ read[k] # t[k]}
    IN  \E t \in ever[n] \cup {NoPairs} :
          /\ Cardinality(Wrong(t)) <= 1
          /\ \A k \in Wrong(t) : \E key \in DOMAIN t : IsPrefix(k, key)
=============================================================================
