----------------------------- MODULE MCFunctions -----------------------------
(* The functions on texts and files over bounded inputs.                   *)
EXTENDS TextCalls, TLC

MCByte ==
  {"NUL", "\"", "\\", " ", "\t", "\r", "\n", "\f", "BS", "SOH", "US", "/",
   ":", ",", "{", "}", "b", "f", "n", "r", "t", "u", "0", "1", "?",
   "storefront_id", "dev_token", "music_token", "guid", "assertion",
   "tcc-acceptance-date", "token",
   "GET", "PUT", "HTTP/", "a", "g", "j", "k", "m", "p", "s", "x", "2", "9", "-"}

UpTo(S, n) == UNION {[1..m -> S] : m \in 0..n}

MCRaws(n) == {FlattenSeq(u) :
  u \in UpTo({<<"x">>, <<"k">>, <<":">>, <<Backslash, Quote>>, <<Backslash, Backslash>>}, n)}

MCMembers(n) == [key : {"k", "j"}, form : {"string", "blank", "number"}, raw : MCRaws(n)]

MCSlots == [tag : {"RUNPATH", "VERNEED", "NEEDED"}, value : {{}}]
             \cup [tag : {"FLAGS_1"}, value : SUBSET {"PIE", "NOW"}] \cup {B!NullEntry}

MCExtract == \E members \in {<<m>> : m \in MCMembers(3)}
                              \cup {<<m, n>> : m \in MCMembers(2), n \in MCMembers(1)} :
               Extract(members)

MCEscape == \E s \in UpTo({"a", Quote, Backslash, "\n", "BS", "SOH", "US", "/"}, 3),
               d \in UpTo({"a", Quote}, 1) : Escape(s, d, <<>>)

MCPass == \E raw \in MCRaws(4) : Pass(raw)

MCReadHeaders ==
  \E start \in {<<"GET", " ", "/", " ", "HTTP/">>, <<"GET", " ", "/", " ">>, <<"PUT">>, <<>>},
     rest \in UpTo({"\r", "\n", "NUL"}, 5), a, b \in 0..10, size \in {4, 8, 12} :
    LET text == start \o rest
    IN /\ a =< b /\ b =< Len(text)
       /\ ReadHeaders(SelectSeq(<<SubSeq(text, 1, a), SubSeq(text, a + 1, b),
                                  SubSeq(text, b + 1, Len(text))>>,
                                LAMBDA piece : piece # <<>>), size)

MCReadNumber == \E text \in UpTo({"0", "1", "9", "-"}, 4) : ReadNumber(text)

MCReadCode == \E file \in UpTo({"1", "2", "\r", "\n", "NUL"}, 5) : ReadCode(file)

MCBuildTzdata == \E g, p \in UpTo({"g", "p"}, 3) : BuildTzdata("GMT" :> g @@ "posixrules" :> p)

MCPatchElf == \E slots \in UpTo(MCSlots, 4) : PatchElf(slots)

MCCall ==
  \/ MCExtract \/ MCEscape \/ MCPass \/ MCReadHeaders \/ MCReadNumber \/ MCReadCode
  \/ MCBuildTzdata \/ MCPatchElf

\* One call is enough: none of the functions keeps anything.
MCSpec == CallInit /\ [][call.fn = "none" /\ MCCall]_call
=============================================================================
