---------------------------- MODULE TextFunctions ----------------------------
(***************************************************************************)
(* The functions of server.c on texts: the search for a member of Apple's  *)
(* JSON answers, the escaping of what the account port answers, the end of *)
(* a request's headers, the ids of the m3u8 port and the code in 2fa.txt.  *)
(* A text is a sequence of bytes; a word that is compared as a whole, such *)
(* as a key or a method, is one byte.  That memory runs out is left out:   *)
(* then all of these functions fail and their callers are in the modules   *)
(* of the services.                                                        *)
(***************************************************************************)
EXTENDS Integers, Sequences, SequencesExt, FiniteSetsExt, Folding

CONSTANTS
  NULL,
  Byte,         \* what a text is made of
  UlongMax,     \* ULONG_MAX
  CodeLength,   \* TWO_FACTOR_CODE_LEN
  LineSize      \* sizeof(line) in read_two_factor_code

ASSUME TextAssumption ==
  /\ UlongMax \in Nat /\ CodeLength \in Nat \ {0}
  /\ LineSize \in Nat /\ LineSize >= CodeLength + 2
  /\ NULL \notin Nat /\ NULL \notin Seq(Byte)

\* The bytes and words that stand in the code.
ASSUME ByteAssumption ==
  {"NUL", "\"", "\\", " ", "\t", "\r", "\n", "\f", "BS", "SOH", "US", "/",
   ":", ",", "{", "}", "b", "f", "n", "r", "t", "u", "0", "1", "?",
   "storefront_id", "dev_token", "music_token", "guid", "assertion",
   "tcc-acceptance-date", "token"} \subseteq Byte

NUL == "NUL"
Quote == "\""
Backslash == "\\"
Blanks == {" ", "\t", "\r", "\n"}

At(text, i) == IF i \in 1..Len(text) THEN text[i] ELSE NUL

\* Where t begins in text, 0 if nowhere.
Strstr(text, t) ==
  LET starts == {i \in 1..Len(text) - Len(t) + 1 : SubSeq(text, i, i + Len(t) - 1) = t}
  IN IF starts = {} THEN 0 ELSE Min(starts)

\* Where the first byte of set stands, 0 if nowhere.
FirstOf(text, set) == SelectInSeq(text, LAMBDA b : b \in set)

\* What a C function sees of a buffer.
CString(buffer) ==
  LET end == FirstOf(buffer, {NUL})
  IN IF end = 0 THEN buffer ELSE SubSeq(buffer, 1, end - 1)

-----------------------------------------------------------------------------
(* Apple's answers: json_extract_string *)

EndsValue_AnyQuote(text, value, i) == text[i] = Quote

\* A quote ends the value unless it is its first byte or follows a backslash.
EndsValue(text, value, i) ==
  text[i] = Quote /\ i > value /\ text[i - 1] # Backslash

JsonExtractString(json, key) ==
  LET needle == <<Quote>> \o key \o <<Quote>>
      pos == Strstr(json, needle)
      colon == SelectInSubSeq(json, pos + Len(needle), Len(json), LAMBDA b : b = ":")
      open == SelectInSubSeq(json, colon + 1, Len(json), LAMBDA b : b \notin Blanks)
      ends == {i \in open + 1..Len(json) : EndsValue(json, open + 1, i)}
  IN IF pos = 0 \/ colon = 0 \/ At(json, open) # Quote \/ ends = {} THEN NULL
     ELSE SubSeq(json, open + 1, Min(ends) - 1)

-----------------------------------------------------------------------------
(* What goes out: json_escape_string and the two texts made with tokens *)

\* What is written behind a backslash for a byte.
Letter ==
  [b \in {Quote, Backslash, "BS", "\f", "\n", "\r", "\t"} |->
     CASE b = "BS" -> "b" [] b = "\f" -> "f" [] b = "\n" -> "n" [] b = "\r" -> "r"
       [] b = "\t" -> "t" [] OTHER -> b]

\* Two of the other control bytes stand for all.
Hex == [b \in {"SOH", "US"} |-> IF b = "SOH" THEN <<"0", "0", "0", "1">>
                                ELSE <<"0", "0", "1", "f">>]

\* The first loop, which only counts.
EscapedLength(text) ==
  Fold([n \in Nat |-> [b \in Byte |-> n + CASE b \in DOMAIN Letter -> 2
                                           [] b \in DOMAIN Hex -> 6
                                           [] OTHER -> 1]], 0, text)

Escaped_NoBackslash(b) ==
  CASE b \in DOMAIN Letter \ {Backslash} -> <<Backslash, Letter[b]>>
    [] b \in DOMAIN Hex -> <<Backslash, "u">> \o Hex[b]
    [] OTHER -> <<b>>

Escaped(b) ==
  CASE b \in DOMAIN Letter -> <<Backslash, Letter[b]>>
    [] b \in DOMAIN Hex -> <<Backslash, "u">> \o Hex[b]
    [] OTHER -> <<b>>

\* The second loop, which writes.
JsonEscapeString(text) == FlattenSeq([i \in 1..Len(text) |-> Escaped(text[i])])

Member(key, raw) == <<Quote, key, Quote, ":", Quote>> \o raw \o <<Quote>>

\* The body that get_music_user_token sends; the date is digits.
MusicTokenBody(guid, auth) ==
  <<"{">> \o Member("guid", guid) \o <<",">> \o Member("assertion", auth)
    \o <<",">> \o Member("tcc-acceptance-date", <<"1">>) \o <<"}">>

AccountText_Raw(text) == text

\* A cached text as handle_account_request puts it into its answer.
AccountText(text) == JsonEscapeString(text)

AccountBody(storefront, dev, music) ==
  <<"{">> \o Member("storefront_id", AccountText(storefront))
    \o <<",">> \o Member("dev_token", AccountText(dev))
    \o <<",">> \o Member("music_token", AccountText(music)) \o <<"}">>

-----------------------------------------------------------------------------
(* What comes in *)

HasBlankLine(buffer) ==
  \/ Strstr(CString(buffer), <<"\r", "\n", "\r", "\n">>) # 0
  \/ Strstr(CString(buffer), <<"\n", "\n">>) # 0

Searched_NewOnly(buffer, piece) == piece

\* The part of the buffer in which the blank line is looked for.
Searched(buffer, piece) == buffer

\* A read returns the piece, or what of it there is room for.
ReadPiece(size) ==
  [got \in [buffer : Seq(Byte), done : BOOLEAN] |-> [piece \in Seq(Byte) |->
     IF got.done \/ Len(got.buffer) + 1 >= size THEN got
     ELSE LET new == SubSeq(piece, 1, Min({Len(piece), size - 1 - Len(got.buffer)}))
              all == got.buffer \o new
          IN [buffer |-> all, done |-> HasBlankLine(Searched(all, new))]]]

\* read_http_headers, when the client closes its end after the last piece.
ReadHttpHeaders(pieces, size) ==
  Fold(ReadPiece(size), [buffer |-> <<>>, done |-> FALSE], pieces).buffer

IsAccountRequestAllowed(buffer) ==
  \E method \in {"GET", "POST"} :
    IsPrefix(<<method, " ", "/", " ", "HTTP/">>, CString(buffer))

Digit ==
  [d \in {"0", "1", "2", "3", "4", "5", "6", "7", "8", "9"} |->
     CASE d = "0" -> 0 [] d = "1" -> 1 [] d = "2" -> 2 [] d = "3" -> 3 [] d = "4" -> 4
       [] d = "5" -> 5 [] d = "6" -> 6 [] d = "7" -> 7 [] d = "8" -> 8 [] d = "9" -> 9]

\* The C library's strtoul on digits: an error from the first digit that does not
\* fit on.
Strtoul(text) ==
  Fold([n \in Nat \cup {NULL} |-> [d \in DOMAIN Digit |->
          IF n = NULL \/ 10 * n + Digit[d] > UlongMax THEN NULL ELSE 10 * n + Digit[d]]],
       0, text)

\* Without errno, what does not fit is ULONG_MAX.
ParsePositiveDecimalUlong_NoErrno(text) ==
  IF text = <<>> \/ \E i \in 1..Len(text) : text[i] \notin DOMAIN Digit THEN 0
  ELSE LET parsed == Strtoul(text) IN IF parsed = NULL THEN UlongMax ELSE parsed

\* parse_positive_decimal_ulong; 0 for a refusal.
ParsePositiveDecimalUlong(text) ==
  IF text = <<>> \/ \E i \in 1..Len(text) : text[i] \notin DOMAIN Digit THEN 0
  ELSE LET parsed == Strtoul(text) IN IF parsed = NULL THEN 0 ELSE parsed

\* The bytes that fgets takes at most.
FgetsLimit == LineSize - 1

\* read_two_factor_code on the bytes of 2fa.txt; NULL for a refusal.
ReadTwoFactorCode(file) ==
  LET newline == FirstOf(file, {"\n"})
      stop == IF newline = 0 THEN Len(file) ELSE newline
      line == SubSeq(file, 1, Min({stop, FgetsLimit}))
      end == FirstOf(line, {"\r", "\n", NUL})
      code == IF end = 0 THEN line ELSE SubSeq(line, 1, end - 1)
  IN IF Len(code) = CodeLength THEN code ELSE NULL
=============================================================================
