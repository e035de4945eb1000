----------------------------- MODULE TopicFilter -----------------------------
(***************************************************************************)
(* MQTT topic filters, as libmqttc matches them (libmqttc.c:1304-1330) and *)
(* as the protocol defines them.  A topic name and a topic filter are      *)
(* sequences of one-character strings; "/" separates levels, "+" stands    *)
(* for one level and "#" for the rest of the name.                         *)
(***************************************************************************)
EXTENDS Naturals, Sequences, SequencesExt

(* The last character of the level that n[j] belongs to: the inner loop of *)
(* isTopicMatched moves curn there when the filter has a "+".              *)
LevelEndNext(n, j) == j

LevelEnd(n, j) ==
    CHOOSE k \in j .. Len(n) :
        /\ k = Len(n) \/ n[k + 1] = "/"
        /\ \A l \in j + 1 .. k : n[l] # "/"

RECURSIVE Walk(_, _, _, _)
Walk(f, n, i, j) ==
    IF \/ i > Len(f) \/ j > Len(n)
       \/ n[j] = "/" /\ f[i] # "/"
       \/ f[i] \notin {"+", "#", n[j]}
    THEN i > Len(f) /\ j > Len(n)
    ELSE Walk(f, n, i + 1, 1 + CASE f[i] = "+" -> LevelEnd(n, j)
                                 [] f[i] = "#" -> Len(n)
                                 [] OTHER      -> j)

isTopicMatched(f, n) == Walk(f, n, 1, 1)

(* The condition under which deliverMessage calls a handler.               *)
Delivers(f, n) == f = n \/ isTopicMatched(f, n)

-----------------------------------------------------------------------------
(* The protocol's definition, level by level.                              *)

Levels(s) ==
    FoldLeft(LAMBDA ls, ch : IF ch = "/" THEN Append(ls, <<>>)
                             ELSE [ls EXCEPT ![Len(ls)] = Append(@, ch)],
             << <<>> >>, s)

Rest(f) == Last(Levels(f)) = <<"#">>

(* The comment at libmqttc.c:1302: "# can only be at end", "+ and # can    *)
(* only be next to separator".                                             *)
WellFormed(f) ==
    LET F == Levels(f) IN
    \A i \in DOMAIN F : \/ Range(F[i]) \cap {"+", "#"} = {}
                        \/ F[i] = <<"+">>
                        \/ F[i] = <<"#">> /\ i = Len(F)

Matches(f, n) ==
    LET F == Levels(f)
        N == Levels(n)
        Fits(k) == \A i \in 1 .. k : F[i] \in {<<"+">>, N[i]}
    IN  \/ Len(F) = Len(N) /\ Fits(Len(F))
        \/ Rest(f) /\ Len(N) >= Len(F) - 1 /\ Fits(Len(F) - 1)

(* The two kinds of name on which isTopicMatched is narrower than the      *)
(* protocol: a name with an empty level, and the parent of a "#".          *)
Narrower(f, n) == \/ <<>> \in Range(Levels(n))
                  \/ Rest(f) /\ Len(Levels(n)) = Len(Levels(f)) - 1
=============================================================================
