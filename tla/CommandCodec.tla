---------------------------- MODULE CommandCodec ----------------------------
(***************************************************************************)
(* The text frames of a host command (command_codec.c): "type=..;nonce=..; *)
(* origin=..;username=..;password=..". A line is a sequence of symbols:    *)
(* the words the codec compares, numerals, the separators and a few others *)
(* that stand for the remaining text.                                      *)
(*                                                                         *)
(* A host may send the encoding of a command or a line of its own.         *)
(* Numerals are written without sign or blanks, which strtoul would also   *)
(* take.                                                                   *)
(***************************************************************************)
EXTENDS Integers, Sequences, FiniteSetsExt, SequencesExt

CONSTANTS
    MaxFrame,     \* COMMAND_CODEC_MAX_FRAME
    MaxField,     \* symbols a text field can hold, its terminator not counted
    MaxNonce,     \* UINT32_MAX
    LongMax,      \* ULONG_MAX of the target, UINT32_MAX where long is 32 bits
    Symbols,      \* what a line is made of
    Numeral,      \* how a number is written
    Texts,        \* values of text fields the host uses
    Lines,        \* lines a host puts together by itself
    BufferSizes,  \* sizes of the encoder's output buffer
    NoCommand

Separator == ";"

TextKeys == {"origin", "username", "password"}
Types == {"FILL", "SAVE", "GENERATE", "SELECT_NEXT"}

\* The words that stand for the types; strncmp looks at 16 characters, which
\* are all of the first three and end in the middle of the fourth.
TypeWords ==
    [FILL |-> <<"REQUEST_FILL">>, SAVE |-> <<"REQUEST_SAVE">>,
     GENERATE |-> <<"REQUEST_GENERATE">>,
     SELECT_NEXT |-> <<"REQUEST_SELECT_N", "EXT">>]

Commands == [type : Types \cup {"NONE"}, nonce : 0..MaxNonce,
             origin : Texts, username : Texts, password : Texts]

ASSUME CodecAssumption ==
    /\ MaxFrame \in Nat /\ MaxField \in Nat /\ MaxNonce \in Nat
    /\ LongMax \in Nat /\ LongMax >= MaxNonce
    /\ \A t \in Texts : Len(t) <= MaxField
    /\ MaxFrame > 17 + 3 * MaxField

\* Numbers are written differently, and none holds the separator.
ASSUME SymbolsAssumption ==
    /\ TextKeys \cup {"type", "nonce", "=", Separator} \subseteq Symbols
    /\ \A t \in Types : TypeWords[t] \in Seq(Symbols)
    /\ Texts \cup Lines \subseteq Seq(Symbols)
    /\ DOMAIN Numeral \subseteq Nat /\ 0..MaxNonce \subseteq DOMAIN Numeral
    /\ \A n \in DOMAIN Numeral : Numeral[n] \in Symbols \ {Separator}
    /\ \A m, n \in DOMAIN Numeral : Numeral[m] = Numeral[n] => m = n

VARIABLES
    sent,      \* the command the line encodes, or NoCommand
    line,      \* the symbols that arrived
    received   \* <<>> before decoding, then <<outcome>>

vars == <<sent, line, received>>

----------------------------------------------------------------------------
(* Encoding *)

Pair(key, value) == <<key, "=">> \o value

Frame(cmd) ==
    Pair("type", TypeWords[cmd.type]) \o <<Separator>>
    \o Pair("nonce", <<Numeral[cmd.nonce]>>) \o <<Separator>>
    \o Pair("origin", cmd.origin) \o <<Separator>>
    \o Pair("username", cmd.username) \o <<Separator>>
    \o Pair("password", cmd.password)

\* command_codec_encode into a buffer of the given size, terminator included.
Encodable(cmd, size) == cmd.type \in Types /\ Len(Frame(cmd)) < size

----------------------------------------------------------------------------
(* Decoding *)

\* trim_newline: the newlines at the end of the line.
Trimmed(l) ==
    LET kept == {i \in DOMAIN l : l[i] # "\n"}
    IN  IF kept = {} THEN <<>> ELSE SubSeq(l, 1, Max(kept))

\* strtok: the longest runs without a semicolon, by their first positions.
Starts(l) == {i \in DOMAIN l : l[i] # Separator /\ (i = 1 \/ l[i - 1] = Separator)}
Token(l, i) ==
    LET ends == {j \in i..Len(l) : j = Len(l) \/ l[j + 1] = Separator}
    IN  SubSeq(l, i, Min(ends))

\* Mutant: a pair is split at its last equals sign (strrchr for strchr).
EqualsOfLast(token) == Max({i \in DOMAIN token : token[i] = "="})
\* strchr: where a pair is split.
Equals(token) == Min({i \in DOMAIN token : token[i] = "="})

HasEquals(token) == \E i \in DOMAIN token : token[i] = "="
Key(token) == SubSeq(token, 1, Equals(token) - 1)
Value(token) == SubSeq(token, Equals(token) + 1, Len(token))

\* parse_type: two of the words are compared as prefixes.
ParsedTypes(value) ==
    {t \in {"FILL", "SAVE"} : value = TypeWords[t]}
    \cup {t \in {"GENERATE", "SELECT_NEXT"} :
            value # <<>> /\ value[1] = TypeWords[t][1]}

\* strtoul: a numeral and nothing else; a number too large becomes ULONG_MAX,
\* and what exceeds 32 bits is then refused.
ParsedNonces(value) ==
    {Min({n, LongMax}) : n \in {n \in DOMAIN Numeral : value = <<Numeral[n]>>}}
        \cap 0..MaxNonce

\* strncpy into a field.
Cut(value) == SubSeq(value, 1, Min({MaxField, Len(value)}))

WellFormed(token) ==
    /\ HasEquals(token)
    /\ \/ Key(token) = <<"type">> /\ ParsedTypes(Value(token)) # {}
       \/ Key(token) = <<"nonce">> /\ ParsedNonces(Value(token)) # {}
       \/ \E key \in TextKeys : Key(token) = <<key>>

\* The last pair with a key gives the field its value.
Given(l, key) == {i \in Starts(l) : Key(Token(l, i)) = <<key>>}
LastValue(l, key) == Value(Token(l, Max(Given(l, key))))
Text(l, key) == IF Given(l, key) = {} THEN <<>> ELSE Cut(LastValue(l, key))

\* command_codec_decode and command_codec_decode_line.
Decoded(frame) ==
    LET l == Trimmed(frame)
    IN  IF /\ frame # <<>> /\ Len(frame) < MaxFrame
           /\ \A i \in Starts(l) : WellFormed(Token(l, i))
           /\ Given(l, "type") # {}
        THEN [type     |-> CHOOSE t \in ParsedTypes(LastValue(l, "type")) : TRUE,
              nonce    |-> IF Given(l, "nonce") = {} THEN 0
                           ELSE CHOOSE n \in ParsedNonces(LastValue(l, "nonce")) : TRUE,
              origin   |-> Text(l, "origin"),
              username |-> Text(l, "username"),
              password |-> Text(l, "password")]
        ELSE NoCommand

----------------------------------------------------------------------------
Init == sent = NoCommand /\ line = <<>> /\ received = <<>>

\* The host encodes a command; on failure the buffer is zeroed.
Encode(cmd, size) ==
    /\ line = <<>> /\ received = <<>>
    /\ Encodable(cmd, size)
    /\ line' = Frame(cmd) /\ sent' = cmd
    /\ UNCHANGED received

\* The host writes a line by itself.
Write(text) ==
    /\ line = <<>> /\ received = <<>>
    /\ line' = text
    /\ UNCHANGED <<sent, received>>

Decode ==
    /\ received = <<>>
    /\ received' = <<Decoded(line)>>
    /\ UNCHANGED <<sent, line>>

\* The next line.
Taken == received # <<>> /\ sent' = NoCommand /\ line' = <<>> /\ received' = <<>>

Next ==
    \/ \E cmd \in Commands, size \in BufferSizes : Encode(cmd, size)
    \/ \E text \in Lines : Write(text)
    \/ Decode \/ Taken

Spec == Init /\ [][Next]_vars

----------------------------------------------------------------------------
\* Fields that survive the framing: none holds the separator, and the last one
\* does not end in a newline.
Plain(cmd) ==
    /\ \A key \in TextKeys : ~Contains(cmd[key], Separator)
    /\ cmd.password = Trimmed(cmd.password)

\* A command decodes from its own encoding exactly when it is plain: equals
\* signs, keywords, newlines inside and full fields survive, a separator or a
\* last newline never does.  This is so of every command sent, and of every one
\* decoded from a line that fields are missing from, repeated or reordered in:
\* its fields fit, whatever was cut to make them fit (see OversizedRejected).
RoundTrip ==
    received # <<>> =>
        LET cmd == received[1] IN
        /\ sent # NoCommand => (cmd = sent <=> Plain(sent))
        /\ cmd # NoCommand => (Decoded(Frame(cmd)) = cmd <=> Plain(cmd))

\* docs/SECURITY_MODEL.md:32, "Command parser must reject malformed/oversized
\* payloads": a line is accepted only if each text given in it fits its field.
OversizedRejected ==
    received # <<>> /\ received[1] # NoCommand =>
        LET l == Trimmed(line) IN
        \A key \in TextKeys : \A i \in Given(l, key) :
            Len(Value(Token(l, i))) <= MaxField

=============================================================================
