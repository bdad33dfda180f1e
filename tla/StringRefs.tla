----------------------------- MODULE StringRefs ------------------------------
(***************************************************************************)
(* Trimming and splitting the string references of examples/str.c, which   *)
(* point into memory they do not own: a reference is what it points to.    *)
(***************************************************************************)
EXTENDS Integers, Sequences, FiniteSets

Sets == INSTANCE FiniteSetsExt

isspace == {"blank", "tab", "newline"}
Char == isspace \cup {"x"}                \* bound: one character that is no space

Drop(ref, n) == SubSeq(ref, n + 1, Len(ref))

(* for (; i < ref->len; i++) if (ref->str[i] is not in run) break; *)
RunEnd(ref, i, run) == Sets!Min({k \in i .. Len(ref) : k = Len(ref) \/ ref[k + 1] \notin run})

string_ref_trim_left(ref, c) == RunEnd(ref, 0, {c})

(* C leaves open which of c and d, the blank and the tab, is trimmed first. *)
TrimBoth(ref, c, d) ==
  LET n == string_ref_trim_left(ref, c) IN n + string_ref_trim_left(Drop(ref, n), d)

(* The loop ends with the first round that trims nothing, and the rounds after that
   one would trim nothing either: there are at most Len(ref) that do. *)
string_ref_trim_left_ws(ref, c, d) ==
  LET sum[i \in 0 .. Len(ref)] ==
        IF i = 0 THEN 0 ELSE sum[i - 1] + TrimBoth(Drop(ref, sum[i - 1]), c, d)
  IN sum[Len(ref)]

string_ref_split_ws_once(original) ==
  LET start == RunEnd(original, 0, isspace)
      end == RunEnd(original, start, Char \ isspace)
  IN [token |-> SubSeq(original, start + 1, end), rest |-> Drop(original, end),
      found |-> end # start]

------------------------------------------------------------------------------
(* Every string of up to six characters. *)
Texts == UNION {[1 .. n -> Char] : n \in 0 .. 6}

(* The loop of string_ref_trim_left_ws trims every leading blank and tab, however
   they alternate and in whichever order C evaluates its two calls. *)
TrimsBlanks ==
  \A text \in Texts : \A order \in {<<"blank", "tab">>, <<"tab", "blank">>} :
    LET n == string_ref_trim_left_ws(text, order[1], order[2])
    IN /\ \A k \in 1 .. n : text[k] \in {"blank", "tab"}
       /\ n < Len(text) => text[n + 1] \notin {"blank", "tab"}

(* Splitting until nothing is found cuts a string into its words: the maximal runs
   without spaces, in their order, each once. *)
SplitOff(words, rest) ==
  LET once == string_ref_split_ws_once(rest)
  IN <<IF once.found THEN Append(words, once.token) ELSE words, once.rest>>
Split(s) ==
  LET cut[i \in 0 .. Len(s)] ==
        IF i = 0 THEN << <<>>, s>> ELSE SplitOff(cut[i - 1][1], cut[i - 1][2])
  IN cut[Len(s)][1]

WordStarts(s) == {k \in DOMAIN s : s[k] \notin isspace /\ (k = 1 \/ s[k - 1] \in isspace)}
WordFrom(s, k) == SubSeq(s, k, Sets!Max({j \in k .. Len(s) :
                                          \A i \in k .. j : s[i] \notin isspace}))

SplitsWords ==
  \A text \in Texts :
    LET starts == WordStarts(text) IN
    /\ Len(Split(text)) = Cardinality(starts)
    /\ \A k \in starts :
         Split(text)[Cardinality({j \in starts : j <= k})] = WordFrom(text, k)
==============================================================================
