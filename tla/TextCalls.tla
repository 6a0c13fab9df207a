------------------------------ MODULE TextCalls ------------------------------
(***************************************************************************)
(* Calls of the functions on texts and of the scripts, with any input that *)
(* the program can pass to them.  A step is a call; what it returns is     *)
(* compared with a definition that does not follow the code.               *)
(***************************************************************************)
EXTENDS TextFunctions

CONSTANTS MinLength, HeaderSize, EntrySize

B == INSTANCE BuildScripts

ASSUME ScriptAssumption ==
  MinLength \in Nat /\ HeaderSize \in Nat /\ EntrySize \in Nat

VARIABLES call   \* the function called last and its arguments

CallInit == call = [fn |-> "none"]

\* What a C string may hold.
Chars == Byte \ {NUL}

\* Bytes that stand for themselves between the quotes of JSON, and all that may
\* stand there.
Plain == Chars \ (DOMAIN Letter \cup DOMAIN Hex)
Units == {<<b>> : b \in Plain} \cup {<<Backslash, Letter[b]>> : b \in DOMAIN Letter}
           \cup {<<Backslash, "u">> \o Hex[b] : b \in DOMAIN Hex}
Raws == {FlattenSeq(units) : units \in Seq(Units)}

\* Members of an object; a blank may stand before a value, and a value may be a
\* number.
Members == [key : Plain, form : {"string", "blank", "number"}, raw : Raws]

Extract(members) == call' = [fn |-> "extract", members |-> members]

Escape(storefront, dev, music) ==
  call' = [fn |-> "escape", storefront |-> storefront, dev |-> dev, music |-> music]

Pass(raw) == call' = [fn |-> "pass", raw |-> raw]

ReadHeaders(pieces, size) == call' = [fn |-> "headers", pieces |-> pieces, size |-> size]

ReadNumber(text) == call' = [fn |-> "number", text |-> text]

ReadCode(file) == call' = [fn |-> "code", text |-> file]

BuildTzdata(files) == call' = [fn |-> "tzdata", files |-> files]

PatchElf(slots) == call' = [fn |-> "elf", slots |-> slots]

Call ==
  \/ \E members \in Seq(Members) : members # <<>> /\ Extract(members)
  \/ \E s, d, m \in Seq(Chars) : Escape(s, d, m)
  \/ \E raw \in Raws : Pass(raw)
  \/ \E pieces \in Seq(Seq(Byte) \ {<<>>}), size \in Nat \ {0} : ReadHeaders(pieces, size)
  \/ \E text \in Seq(Chars) : ReadNumber(text)
  \/ \E file \in Seq(Byte) : ReadCode(file)
  \/ \E files \in [{"GMT", "posixrules"} -> Seq(Byte)] : BuildTzdata(files)
  \/ \E slots \in Seq(B!Entry) : PatchElf(slots)

CallSpec == CallInit /\ [][Call]_call

-----------------------------------------------------------------------------
(* How JSON is read: byte by byte, a backslash taking the next byte with it. *)

\* The strings read so far, what of the next one stands for, and the digits of an
\* escape that is being read.
Reading ==
  [mode : {"out", "in", "escape", "hex"}, done : Seq(Seq(Byte)), text : Seq(Byte),
   digits : Seq(Byte)]

\* The byte that an escape stands for; "?" for what is none, and for what may
\* not stand in a string.
Unescaped(b) == IF \E c \in DOMAIN Letter : Letter[c] = b
                THEN CHOOSE c \in DOMAIN Letter : Letter[c] = b ELSE "?"
Unhexed(digits) == IF \E c \in DOMAIN Hex : Hex[c] = digits
                   THEN CHOOSE c \in DOMAIN Hex : Hex[c] = digits ELSE "?"
Shown(b) == IF b \in DOMAIN Letter \cup DOMAIN Hex THEN "?" ELSE b

AfterByte(s, b) ==
  CASE s.mode = "out" -> IF b = Quote THEN [s EXCEPT !.mode = "in", !.text = <<>>] ELSE s
    [] s.mode = "in" ->
         IF b = Quote THEN [s EXCEPT !.mode = "out", !.done = Append(@, s.text)]
         ELSE IF b = Backslash THEN [s EXCEPT !.mode = "escape"]
         ELSE [s EXCEPT !.text = Append(@, Shown(b))]
    [] s.mode = "escape" ->
         IF b = "u" THEN [s EXCEPT !.mode = "hex", !.digits = <<>>]
         ELSE [s EXCEPT !.mode = "in", !.text = Append(@, Unescaped(b))]
    [] s.mode = "hex" ->
         IF Len(s.digits) < 3 THEN [s EXCEPT !.digits = Append(@, b)]
         ELSE [s EXCEPT !.mode = "in", !.text = Append(@, Unhexed(Append(s.digits, b)))]

ReadByte == [s \in Reading |-> [b \in Byte |-> AfterByte(s, b)]]

\* The strings of a text in their order, each as the text that it stands for.
Strings(json) ==
  Fold(ReadByte, [mode |-> "out", done |-> <<>>, text |-> <<>>, digits |-> <<>>], json).done

Decoded(raw) == Strings(<<Quote>> \o raw \o <<Quote>>)[1]

-----------------------------------------------------------------------------

(***************************************************************************)
(* json_extract_string finds what a JSON reader finds: the first member    *)
(* with the key, and nothing if there is none or it is no string.  It      *)
(* takes two things for granted: the key in quotes does not occur in an    *)
(* earlier value, and the value is not empty and does not end in an        *)
(* escaped backslash.                                                      *)
(***************************************************************************)
Findable(raw) == raw # <<>> /\ ~IsSuffix(<<Backslash, Backslash>>, raw)

Text(m) ==
  CASE m.form = "string" -> Member(m.key, m.raw)
    [] m.form = "blank" -> <<Quote, m.key, Quote, ":", " ", Quote>> \o m.raw \o <<Quote>>
    [] m.form = "number" -> <<Quote, m.key, Quote, ":", "1">>

Object(members) ==
  <<"{">> \o FlattenSeq([i \in 1..Len(members) |->
                           (IF i = 1 THEN <<>> ELSE <<",">>) \o Text(members[i])]) \o <<"}">>

ExtractFindsMember ==
  call.fn = "extract" =>
    LET members == call.members
        first == SelectInSeq(members, LAMBDA m : m.key = "k")
        earlier == 1..(IF first = 0 THEN Len(members) ELSE first - 1)
        got == JsonExtractString(Object(members), <<"k">>)
    IN (\A i \in earlier : Strstr(<<Quote>> \o members[i].raw \o <<Quote>>, <<Quote, "k", Quote>>) = 0)
       => IF first = 0 \/ members[first].form = "number" THEN got = NULL
          ELSE Findable(members[first].raw) => got = members[first].raw

\* Whatever the cached texts hold, a JSON reader gets them back from the answer
\* of the account port, and the space counted for each is the space written.
EscapeDecodes ==
  call.fn = "escape" =>
    /\ Strings(AccountBody(call.storefront, call.dev, call.music)) =
         << <<"storefront_id">>, call.storefront, <<"dev_token">>, call.dev,
            <<"music_token">>, call.music >>
    /\ Len(JsonEscapeString(call.storefront)) = EscapedLength(call.storefront)

(***************************************************************************)
(* A token is kept as it stood between the quotes of Apple's answer.  Put  *)
(* back between quotes for the request of the music token it stands for    *)
(* the same text again.  A client of the account port gets it as it stood: *)
(* that is Apple's token if and only if nothing in it was escaped.         *)
(***************************************************************************)
TokenPassesThrough ==
  call.fn = "pass" /\ Findable(call.raw) =>
    LET token == JsonExtractString(<<"{">> \o Member("token", call.raw) \o <<"}">>, <<"token">>)
        request == Strings(MusicTokenBody(<<"0">>, token))
        answer == Strings(AccountBody(<<"0">>, token, <<"1">>))
    IN /\ Len(request) = 6 /\ request[4] = Decoded(call.raw)
       /\ Len(answer) = 6 /\ answer[4] = call.raw
       /\ answer[4] = Decoded(call.raw) <=> ~Contains(call.raw, Backslash)

(***************************************************************************)
(* However a request is cut into pieces, reading stops at the first piece  *)
(* that completes a blank line (before any NUL), even if the line began in *)
(* an earlier one, and else only at the end or with the buffer full; and   *)
(* what was not read would not have changed the verdict on the request.    *)
(***************************************************************************)
HeaderEndFound ==
  call.fn = "headers" =>
    LET text == FlattenSeq(call.pieces)
        room == SubSeq(text, 1, Min({Len(text), call.size - 1}))
        cuts == {Len(FlattenSeq(SubSeq(call.pieces, 1, i))) : i \in 1..Len(call.pieces)}
        stops == {n \in cuts : n < Len(room) /\ HasBlankLine(SubSeq(text, 1, n))}
        got == ReadHttpHeaders(call.pieces, call.size)
    IN /\ got = SubSeq(text, 1, Min(stops \cup {Len(room)}))
       /\ IsAccountRequestAllowed(got) <=> IsAccountRequestAllowed(room)

\* The number that a text of digits is.
Decimal(text) == Fold([n \in Nat |-> [d \in DOMAIN Digit |-> 10 * n + Digit[d]]], 0, text)

(***************************************************************************)
(* An id is accepted exactly if it is a number from 1 to ULONG_MAX, and as *)
(* that number; a code exactly if the first line of the file, however it   *)
(* ends, has the length of a code: a longer line is not taken for one      *)
(* because fgets cut it off.                                               *)
(***************************************************************************)
InputTextsJudged ==
  /\ call.fn = "number" =>
       LET text == call.text
       IN ParsePositiveDecimalUlong(text) =
            IF /\ \A i \in 1..Len(text) : text[i] \in DOMAIN Digit
               /\ Decimal(text) =< UlongMax
            THEN Decimal(text) ELSE 0
  /\ call.fn = "code" =>
       LET end == FirstOf(call.text, {"\r", "\n", NUL})
           first == IF end = 0 THEN call.text ELSE SubSeq(call.text, 1, end - 1)
       IN ReadTwoFactorCode(call.text) = IF Len(first) = CodeLength THEN first ELSE NULL

\* A zone found through the index is that zone's file: the offsets were given
\* out before the entries were sorted, and the data is written in sorted order.
ZonesOwnData ==
  call.fn = "tzdata" =>
    LET built == B!Tzdata(call.files)
    IN IF \E z \in DOMAIN call.files : Len(call.files[z]) < MinLength THEN built = NULL
       ELSE /\ {built.index[i].name : i \in 1..Len(built.index)} = DOMAIN call.files
            /\ \A i \in 1..Len(built.index) :
                 LET entry == built.index[i]
                     start == built.dataOffset + entry.offset
                 IN SubSeq(built.bytes, start + 1, start + entry.length) = call.files[entry.name]
            /\ built.zoneTabOffset = Len(built.bytes)

(***************************************************************************)
(* A patched file shows the loader every entry that it had, in order, but  *)
(* those taken out, and none of them marked as PIE; nothing of the old     *)
(* table is left behind the end, the table keeps its size, and a second    *)
(* run finds nothing to do.                                                *)
(***************************************************************************)
PatchOnce ==
  call.fn = "elf" =>
    LET after == B!PatchElfFile(call.slots)
        old == B!Live(call.slots)
        new == B!Live(after.slots)
        kept == {i \in 1..Len(old) : old[i].tag \notin B!RemoveTags}
    IN /\ after.how # "patched" => after.slots = call.slots
       /\ after.how # "failed" =>
            /\ Len(after.slots) = Len(call.slots)
            /\ \E from \in [1..Len(new) -> kept] :
                 /\ \A k \in kept : \E i \in 1..Len(new) : from[i] = k
                 /\ \A i, j \in 1..Len(new) : i < j => from[i] < from[j]
                 /\ \A i \in 1..Len(new) :
                      /\ new[i].tag = old[from[i]].tag
                      /\ new[i].value = IF new[i].tag = "FLAGS_1" THEN old[from[i]].value \ {"PIE"}
                                        ELSE old[from[i]].value
       /\ after.how = "patched" =>
            /\ \A i \in Len(new) + 1..Len(call.slots) : after.slots[i] = B!NullEntry
            /\ B!PatchElfFile(after.slots).how = "kept"
=============================================================================
