----------------------------- MODULE ClientInput -----------------------------
(***************************************************************************)
(* What goes into one run of cashier, in the order main asks for it: the   *)
(* options (client/config.go), the key pair made from them                 *)
(* (client/keys.go), and the text of the token on its way from the server, *)
(* which encodes it (encodeToken) for a page (templates/token.go) that     *)
(* shows it and sends it to the local server.  Client has the goroutines;  *)
(* here they have met, and one of the two ways was taken.                  *)
(***************************************************************************)
EXTENDS Integers, SequencesExt

CONSTANTS
    Unset,      \* an option that was not given
    Types,      \* the key types that may be asked for
    Sizes,      \* the key sizes, 0 for the default
    Chunk,      \* chunkSize: 70 in the code
    MaxLen      \* bound: the length of an encoded token

ASSUME InputAssumption == Chunk \in Nat \ {0} /\ MaxLen \in Nat /\ Sizes \subseteq Int

ASSUME UnsetAssumption ==
    /\ Unset \notin Types \cup {"", "rsa", "ecdsa", "ed25519"}
    /\ Unset \notin Sizes \cup {0} /\ Unset \notin BOOLEAN

\* The characters: "+" stands for itself, "a" for every other of base64.  A text
\* of several lines is the sequence of its lines: one for each newline, and what
\* comes after the last newline.
Texts == BoundedSeq({"a", "+"}, MaxLen) \ {<<>>}

VARIABLES
    step,       \* what main does next, or how it ended
    flags,      \* the options on the command line
    file,       \* the options in the configuration file
    c,          \* the Config
    key,        \* the key pair
    text,       \* the token in base64, as the server has it
    way,        \* how the token comes: "http", "paste", or "part" of a paste
    stdin,      \* the lines not read yet
    buffer,     \* the lines read so far, joined
    encoded     \* encodedToken

options == <<flags, file, c, key>>
vars == <<step, options, text, way, stdin, buffer, encoded>>

Nil == [key_type |-> Unset, key_size |-> Unset, validate_tls_certificate |-> Unset]
NoKey == [kind |-> "nil", size |-> 0]

InputTypeOK ==
    /\ step \in {"config", "key", "token", "scan", "decode", "send", "exit 1", "panic"}
    /\ \A o \in {flags, file, c} :
          o \in [key_type : Types \cup {Unset, ""}, key_size : Sizes \cup {Unset, 0},
                 validate_tls_certificate : BOOLEAN \cup {Unset}]
    /\ key.size \in Nat
    /\ text \in Texts \cup {<<>>}
    /\ way \in {"none", "http", "paste", "part"}

Init ==
    /\ step = "config"
    /\ flags \in [key_type : Types \cup {Unset}, key_size : Sizes \cup {Unset},
                  validate_tls_certificate : {Unset}]
    /\ file \in [key_type : Types \cup {Unset}, key_size : Sizes \cup {Unset},
                 validate_tls_certificate : BOOLEAN \cup {Unset}]
    /\ c = Nil /\ key = NoKey
    /\ text = <<>> /\ way = "none"
    /\ stdin = <<>> /\ buffer = <<>> /\ encoded = <<>>

Goto(from, to) == step = from /\ step' = to

-----------------------------------------------------------------------------
(***************************************************************************)
(* ReadConfig.  viper takes a flag that was given, then the file, then a   *)
(* default of its own, then the flag's.  The one default of its own has a  *)
(* name, validateTLSCertificate, that is not the name of the option.       *)
(***************************************************************************)
Defaults == [key_type |-> "", key_size |-> 0, validate_tls_certificate |-> FALSE]

Get(o) ==
    IF flags[o] # Unset THEN flags[o]
    ELSE IF file[o] # Unset THEN file[o] ELSE Defaults[o]

ReadConfig ==
    /\ Goto("config", "key")
    /\ c' = [o \in DOMAIN Nil |-> Get(o)]
    /\ UNCHANGED <<flags, file, key, text, way, stdin, buffer, encoded>>

\* The file does not parse, or there is no home directory: main logs the error
\* and goes on with c = nil, which GenerateKey's arguments dereference.
ReadConfigFails ==
    /\ Goto("config", "panic")
    /\ UNCHANGED <<options, text, way, stdin, buffer, encoded>>

-----------------------------------------------------------------------------
(***************************************************************************)
(* GenerateKey, with KeyType and KeySize applied to defaultOptions: the    *)
(* set of keys it may return, empty where it fails.  A type it does not    *)
(* know is RSA, of the size as given.  crypto/rsa refuses what is not      *)
(* positive; less than 1024 bits it takes or refuses, depending on its     *)
(* version and the settings of the build.                                  *)
(***************************************************************************)
generateECDSAKey(size) ==
    {[kind |-> "*ecdsa.PrivateKey", size |-> n] : n \in {256, 384, 521} \cap {size}}

generateRSAKey(size) ==
    {[kind |-> "*rsa.PrivateKey", size |-> n] : n \in {size} \cap (Nat \ {0})}

\* Variant: the key itself is returned, not a pointer to it.
ED25519KeyByValue == {[kind |-> "ed25519.PrivateKey", size |-> 256]}

generateED25519Key == {[kind |-> "*ed25519.PrivateKey", size |-> 256]}

KeyType(type) == IF type = "" THEN "rsa" ELSE type

Keys(type, size) ==
    CASE type = "rsa"     -> generateRSAKey(IF size = 0 THEN 2048 ELSE size)
      [] type = "ecdsa"   -> generateECDSAKey(IF size = 0 THEN 256 ELSE size)
      [] type = "ed25519" -> generateED25519Key
      [] OTHER            -> generateRSAKey(size)

GenerateKey ==
    /\ Goto("key", "token")
    /\ key' \in Keys(KeyType(c.key_type), c.key_size)
    /\ UNCHANGED <<flags, file, c, text, way, stdin, buffer, encoded>>

GenerateKeyFails ==
    /\ Goto("key", "exit 1")
    /\ \A k \in Keys(KeyType(c.key_type), c.key_size) :
          k.kind = "*rsa.PrivateKey" /\ k.size < 1024
    /\ UNCHANGED <<options, text, way, stdin, buffer, encoded>>

\* pemBlockForKey has a block for pointers to the three kinds of key.
pemBlockForKey(k) ==
    k.kind \in {"*rsa.PrivateKey", "*ecdsa.PrivateKey", "*ed25519.PrivateKey"}

-----------------------------------------------------------------------------
(***************************************************************************)
(* The token.                                                              *)
(***************************************************************************)
Chunks(s) == 1 .. (Len(s) + Chunk - 1) \div Chunk

\* Variant: the end of the last chunk is one short.
PieceShort(s, i) == SubSeq(s, (i - 1) * Chunk + 1, Min({i * Chunk, Len(s) - 1}))

Piece(s, i) == SubSeq(s, (i - 1) * Chunk + 1, Min({i * Chunk, Len(s)}))

\* Variant: a newline between the chunks, none after the last.
encodeTokenJoined(s) == [i \in Chunks(s) |-> Piece(s, i)]

encodeToken(s) == Append([i \in Chunks(s) |-> Piece(s, i)], <<>>)

\* {{.Token}}. in the text area, and the return key after it.
Page(s) ==
    LET t == encodeToken(s) IN Append([t EXCEPT ![Len(t)] = Append(@, ".")], <<>>)

\* The token in the query of xhr.open: the browser drops newlines from a URL,
\* and r.FormValue takes a "+" for a space.
FormValue(s) ==
    [i \in DOMAIN s |-> IF s[i] = "+" THEN " " ELSE s[i]]

\* The page is open in the browser, which sends the token to the local server.
GotToken(s) ==
    /\ Goto("token", "decode")
    /\ text' = s /\ way' = "http"
    /\ encoded' = FormValue(FlattenSeq(encodeToken(s)))
    /\ UNCHANGED <<options, stdin, buffer>>

\* The user copies the page's text, or what of it comes before the ".".
Pasted(s, w) ==
    /\ Goto("token", "scan")
    /\ text' = s /\ way' = w
    /\ stdin' = IF w = "paste" THEN Page(s) ELSE encodeToken(s)
    /\ UNCHANGED <<options, buffer, encoded>>

\* scanner.Text: the next line, or "" at the end of the input.
Line == IF stdin = <<>> THEN <<>> ELSE Head(stdin)

\* for scanner.Scan(); scanner.Text() != "."; scanner.Scan().  At the end of
\* stdin without a "." it goes on for ever.
Scan ==
    /\ step = "scan"
    /\ stdin' = IF stdin = <<>> THEN <<>> ELSE Tail(stdin)
    /\ IF Line = <<".">>
       THEN step' = "decode" /\ encoded' = buffer /\ buffer' = buffer
       ELSE step' = "scan" /\ buffer' = buffer \o Line /\ encoded' = encoded
    /\ UNCHANGED <<options, text, way>>

Decode ==
    /\ step = "decode"
    /\ step' = IF Contains(encoded, " ") THEN "exit 1" ELSE "send"
    /\ UNCHANGED <<options, text, way, stdin, buffer, encoded>>

Over == step \in {"send", "exit 1", "panic"} /\ UNCHANGED vars

Next ==
    \/ ReadConfig \/ ReadConfigFails \/ GenerateKey \/ GenerateKeyFails
    \/ \E s \in Texts : GotToken(s) \/ \E w \in {"paste", "part"} : Pasted(s, w)
    \/ Scan \/ Decode
    \/ Over

\* The goroutine that reads stdin runs, and so does main.
Spec == Init /\ [][Next]_vars /\ WF_vars(Scan) /\ WF_vars(Decode)
-----------------------------------------------------------------------------
\* The option o was given as v: on the command line or, if not there, in the file.
Asked(o, v) == flags[o] = v \/ (flags[o] = Unset /\ file[o] = v)

Kind == [rsa |-> "*rsa.PrivateKey", ecdsa |-> "*ecdsa.PrivateKey",
         ed25519 |-> "*ed25519.PrivateKey"]

\* keys.go:68: "RSA keys must be a minimum of 1024 bits", which generateRSAKey
\* leaves to crypto/rsa.
BelowMinimum(k) == k.kind = Kind.rsa /\ k.size < 1024

\* The key pair is of the type and size asked for, and can be written to a file:
\* pemBlockForKey knows it.  Without a size it has the size its type calls for,
\* and without a type it is an RSA key; so is, of the size given, one of a type
\* that is none of the three (keys.go:125).  Nothing is said of the size of an
\* RSA key that should not have been made.
KeyAsAsked ==
    /\ InputTypeOK
    /\ key # NoKey =>
          /\ pemBlockForKey(key)
          /\ \A t \in DOMAIN Kind : Asked("key_type", t) => key.kind = Kind[t]
          /\ \A n \in Sizes \ {0} :
                Asked("key_size", n) =>
                    key.size = n \/ key.kind = Kind.ed25519 \/ BelowMinimum(key)
          /\ (\A n \in Sizes \ {0} : ~Asked("key_size", n)) =>
                \E t \in DOMAIN Kind :
                    key = [kind |-> Kind[t], size |-> IF t = "rsa" THEN 2048 ELSE 256]

\* The token that goes to the CA is the one the server had, whatever its length:
\* chunked and pasted line by line, or joined by the browser.  It is refused
\* only if it came over HTTP and has a "+" in it (token.go:89 does not escape
\* the query).
TokenArrives ==
    /\ step = "send" => encoded = text
    /\ step = "exit 1" /\ way # "none" => way = "http" /\ Contains(text, "+")

\* A paste of the whole page ends the loop of main.go:72 with the token: the "."
\* is on a line of its own.  (Without it the loop never ends.)
PasteEnds == way = "paste" ~> step = "send"
=============================================================================
