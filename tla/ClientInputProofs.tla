-------------------------- MODULE ClientInputProofs --------------------------
(***************************************************************************)
(* The key pair is the one asked for, and the token that arrives is the    *)
(* one that was sent: for every set of types and sizes, every length of a  *)
(* chunk and every length of a token.                                      *)
(***************************************************************************)
EXTENDS ClientInput, SequenceTheorems, WellFoundedInduction, TLAPS

-----------------------------------------------------------------------------
(***************************************************************************)
(* The inductive invariant.                                                *)
(***************************************************************************)
Char == {"a", "+"}

\* How many chunks a text has, and its first k chunks, joined.
Count(s) == (Len(s) + Chunk - 1) \div Chunk
Prefix(s, k) == SubSeq(s, 1, Min({k * Chunk, Len(s)}))

\* The options are the ones of the command line, the file and the defaults, and
\* the key was made from them.
OptionsRead ==
    /\ step \notin {"config", "panic"} => \A o \in DOMAIN Nil : c[o] = Get(o)
    /\ step \in {"config", "key", "panic"} => key = NoKey
    /\ key # NoKey => key \in Keys(KeyType(c.key_type), c.key_size)

\* The loop that reads a paste has the lines that it has not read before it, and
\* those that it has read in its buffer.
PasteRead ==
    step = "scan" =>
        \/ way = "part" /\ stdin \in Seq(Seq(Char))
        \/ /\ way = "paste" /\ text \in Texts
           /\ \E k \in 1 .. Count(text) + 1 :
                 /\ stdin = SubSeq(Page(text), k, Len(Page(text)))
                 /\ buffer = Prefix(text, k - 1)

\* What is decoded is the token, or the token as a query string spells it.
TokenRead ==
    /\ step \in {"config", "key", "token", "panic"} => way = "none" /\ buffer = <<>>
    /\ step \in {"decode", "send"} =>
          /\ text \in Texts
          /\ \/ way = "http" /\ encoded = FormValue(text)
             \/ way = "paste" /\ encoded = text

InputInv == InputTypeOK /\ OptionsRead /\ PasteRead /\ TokenRead /\ TokenArrives
-----------------------------------------------------------------------------
(***************************************************************************)
(* Chunks.                                                                 *)
(***************************************************************************)
\* The lesser of two numbers.
LEMMA MinOfTwo ==
    ASSUME NEW a \in Int, NEW b \in Int
    PROVE  Min({a, b}) = IF a <= b THEN a ELSE b
<1>1. \E x \in {a, b} : \A y \in {a, b} : x <= y
  OBVIOUS
<1>2. Min({a, b}) \in {a, b} /\ \A y \in {a, b} : Min({a, b}) <= y
  BY <1>1 DEF Min
<1>3. QED
  BY <1>2

LEMMA FunctionIsSeq ==
    ASSUME NEW S, NEW n \in Nat, NEW f \in [1 .. n -> S]
    PROVE  f \in Seq(S) /\ Len(f) = n
  OBVIOUS

LEMMA TextsAreSeqs ==
    ASSUME NEW s \in Texts
    PROVE  s \in Seq(Char) /\ s # <<>> /\ Len(s) \in Nat \ {0}
<1>1. PICK m \in 0 .. MaxLen : s \in [1 .. m -> Char]
  BY DEF Texts, BoundedSeq, SeqOf, Char
<1>2. m \in Nat
  BY InputAssumption
<1>3. s \in Seq(Char)
  BY <1>1, <1>2, FunctionIsSeq
<1>4. s # <<>>
  BY DEF Texts
<1>5. QED
  BY <1>3, <1>4, EmptySeq

\* A text of more than no characters has chunks, enough to hold it and none empty.
LEMMA CountFits ==
    ASSUME NEW n \in Nat \ {0}, NEW d \in Nat \ {0}
    PROVE  LET q == (n + d - 1) \div d
           IN  q \in Nat \ {0} /\ q * d >= n /\ (q - 1) * d < n
<1> DEFINE q == (n + d - 1) \div d
<1>1. q \in Int /\ q * d <= n + d - 1 /\ n + d - 1 < q * d + d
  OBVIOUS
<1>2. QED
  BY <1>1

LEMMA ChunkCount ==
    ASSUME NEW s \in Texts
    PROVE  /\ Count(s) \in Nat \ {0}
           /\ Count(s) * Chunk >= Len(s)
           /\ (Count(s) - 1) * Chunk < Len(s)
           /\ Chunks(s) = 1 .. Count(s)
  BY CountFits, TextsAreSeqs, InputAssumption DEF Count, Chunks

\* The first k chunks and the next one are the first k + 1 chunks.
LEMMA PrefixGrows ==
    ASSUME NEW s \in Texts, NEW k \in Chunks(s)
    PROVE  /\ Piece(s, k) \in Seq(Char)
           /\ Prefix(s, k - 1) \in Seq(Char)
           /\ Prefix(s, k - 1) \o Piece(s, k) = Prefix(s, k)
<1> DEFINE a == (k - 1) * Chunk
           b == Min({k * Chunk, Len(s)})
<1>1. s \in Seq(Char) /\ Len(s) \in Nat /\ k \in Nat \ {0} /\ Chunk \in Nat \ {0}
  BY TextsAreSeqs, ChunkCount, InputAssumption
<1>2. a \in Nat /\ k * Chunk = a + Chunk
  BY <1>1
<1>3. k - 1 <= Count(s) - 1
  BY ChunkCount
<1>4. a <= (Count(s) - 1) * Chunk
  BY <1>1, <1>3, ChunkCount
<1>5. a < Len(s)
  BY <1>1, <1>2, <1>4, ChunkCount
<1>6. Min({a, Len(s)}) = a /\ b \in a .. Len(s) /\ b \in Nat
  BY <1>1, <1>2, <1>5, MinOfTwo
<1>7. SubSeq(s, 1, a) \o SubSeq(s, a + 1, b) = SubSeq(s, 1, b)
  <2> HIDE DEF a, b
  <2>1. 1 \in 1 .. Len(s) + 1 /\ a \in 1 - 1 .. Len(s) /\ b \in a .. Len(s)
    BY <1>1, <1>2, <1>5, <1>6
  <2>2. QED
    BY <1>1, <2>1, ConcatAdjacentSubSeq
<1>8. SubSeq(s, 1, a) \in Seq(Char) /\ SubSeq(s, a + 1, b) \in Seq(Char)
  <2> HIDE DEF a, b
  <2>1. \A i \in 1 .. Len(s) : s[i] \in Char
    BY <1>1
  <2>2. /\ a \in Int /\ b \in Int
        /\ \A i \in 1 .. a : s[i] \in Char
        /\ \A i \in a + 1 .. b : s[i] \in Char
    BY <1>1, <1>2, <1>5, <1>6, <2>1
  <2>3. QED
    BY <2>2, SubSeqProperties
<1>9. QED
  BY <1>6, <1>7, <1>8 DEF Piece, Prefix

\* No chunk at first, the whole text at last.
LEMMA PrefixEnds ==
    ASSUME NEW s \in Texts
    PROVE  /\ Prefix(s, 0) = <<>>
           /\ \A k \in Nat : k >= Count(s) => Prefix(s, k) = s
<1>1. s \in Seq(Char) /\ Len(s) \in Nat /\ Chunk \in Nat \ {0}
  BY TextsAreSeqs, InputAssumption
<1>2. Min({0 * Chunk, Len(s)}) = 0
  BY <1>1, MinOfTwo
<1>3. Prefix(s, 0) = <<>>
  BY <1>1, <1>2 DEF Prefix
<1>4. ASSUME NEW k \in Nat, k >= Count(s) PROVE Prefix(s, k) = s
  <2>1. k * Chunk >= Count(s) * Chunk
    BY <1>1, <1>4, ChunkCount
  <2>2. k * Chunk >= Len(s)
    BY <1>1, <2>1, ChunkCount
  <2>3. Min({k * Chunk, Len(s)}) = Len(s)
    BY <1>1, <2>2, MinOfTwo
  <2>4. QED
    BY <1>1, <2>3, SubSeqFull DEF Prefix
<1>5. QED
  BY <1>3, <1>4

\* The lines of an encoded token: its chunks, and nothing after the last newline.
LEMMA TokenLines ==
    ASSUME NEW s \in Texts
    PROVE  /\ encodeToken(s) \in Seq(Seq(Char))
           /\ Len(encodeToken(s)) = Count(s) + 1
           /\ \A i \in 1 .. Count(s) : encodeToken(s)[i] = Piece(s, i)
           /\ encodeToken(s)[Count(s) + 1] = <<>>
<1> DEFINE t == [i \in Chunks(s) |-> Piece(s, i)]
<1>1. Count(s) \in Nat /\ Chunks(s) = 1 .. Count(s)
  BY ChunkCount
<1>2. t \in [1 .. Count(s) -> Seq(Char)]
  BY <1>1, PrefixGrows
<1>3. t \in Seq(Seq(Char)) /\ Len(t) = Count(s)
  BY <1>1, <1>2, FunctionIsSeq
<1>4. \A i \in 1 .. Count(s) : t[i] = Piece(s, i)
  BY <1>1
<1>5. encodeToken(s) = Append(t, <<>>)
  BY DEF encodeToken
<1>6. QED
  <2> HIDE DEF t
  <2>1. <<>> \in Seq(Char)
    OBVIOUS
  <2>2. QED
    BY <1>1, <1>3, <1>4, <1>5, <2>1, AppendProperties

\* The lines of the page: the chunks, the "." by itself, and nothing after it.
LEMMA PageLines ==
    ASSUME NEW s \in Texts
    PROVE  /\ Page(s) \in Seq(Seq(Char \cup {"."}))
           /\ Len(Page(s)) = Count(s) + 2
           /\ \A i \in 1 .. Count(s) : Page(s)[i] = Piece(s, i)
           /\ Page(s)[Count(s) + 1] = <<".">>
<1> DEFINE t == encodeToken(s)
           L == Seq(Char \cup {"."})
           u == [t EXCEPT ![Len(t)] = Append(t[Len(t)], ".")]
<1>1. Count(s) \in Nat
  BY ChunkCount
<1>2. /\ t \in Seq(Seq(Char)) /\ Len(t) = Count(s) + 1
      /\ \A i \in 1 .. Count(s) : t[i] = Piece(s, i)
      /\ t[Len(t)] = <<>>
  BY TokenLines
<1>3. Page(s) = Append(u, <<>>)
  BY DEF Page
<1> HIDE DEF t
<1>4. t \in Seq(L)
  <2>1. Seq(Char) \subseteq L
    BY SeqMonotonic
  <2> HIDE DEF L
  <2>2. QED
    BY <1>2, <2>1, SeqMonotonic
<1>5. Append(t[Len(t)], ".") = <<".">> /\ <<".">> \in L /\ <<>> \in L
  BY <1>2
<1> HIDE DEF L
<1>6. u \in Seq(L) /\ Len(u) = Len(t)
      /\ \A j \in 1 .. Len(t) : u[j] = IF j = Len(t) THEN <<".">> ELSE t[j]
  <2>1. Len(t) \in 1 .. Len(t)
    BY <1>1, <1>2
  <2> DEFINE e == Append(t[Len(t)], ".")
  <2>2. e \in L /\ e = <<".">>
    BY <1>5
  <2> HIDE DEF e
  <2>3. /\ [t EXCEPT ![Len(t)] = e] \in Seq(L)
        /\ Len([t EXCEPT ![Len(t)] = e]) = Len(t)
        /\ \A j \in 1 .. Len(t) : [t EXCEPT ![Len(t)] = e][j] = IF j = Len(t) THEN e ELSE t[j]
    BY <1>4, <2>1, <2>2, ExceptSeq
  <2>4. u = [t EXCEPT ![Len(t)] = e]
    BY DEF e
  <2> HIDE DEF u
  <2>5. QED
    BY <2>2, <2>3, <2>4
<1> HIDE DEF u
<1>7. /\ Append(u, <<>>) \in Seq(L) /\ Len(Append(u, <<>>)) = Len(u) + 1
      /\ \A i \in 1 .. Len(u) : Append(u, <<>>)[i] = u[i]
  BY <1>5, <1>6, AppendProperties
<1>8. \A i \in 1 .. Count(s) : Page(s)[i] = Piece(s, i)
  BY <1>1, <1>2, <1>3, <1>6, <1>7
<1>9. Len(Page(s)) = Count(s) + 2
  BY <1>1, <1>2, <1>3, <1>6, <1>7
<1>10. Page(s)[Count(s) + 1] = <<".">>
  <2>1. Len(t) \in 1 .. Len(u) /\ u[Len(t)] = <<".">>
    BY <1>1, <1>2, <1>6
  <2>2. QED
    BY <1>2, <1>3, <1>7, <2>1
<1>11. Page(s) \in Seq(Seq(Char \cup {"."}))
  BY <1>3, <1>7 DEF L
<1>12. QED
  BY <1>8, <1>9, <1>10, <1>11

-----------------------------------------------------------------------------
(***************************************************************************)
(* The lines joined.  FlattenSeq is a recursive function; what it computes *)
(* is shown by the least line at which it would differ.                    *)
(***************************************************************************)
LEMMA LeastNumber ==
    ASSUME NEW T, T \subseteq Nat, T # {}
    PROVE  \E x \in T : \A y \in T : x <= y
<1>1. PICK x \in T : \A y \in T : ~(<<y, x>> \in OpToRel(<, Nat))
  BY NatLessThanWellFounded, WFMin
<1>2. \A y \in T : ~(y < x)
  BY <1>1 DEF OpToRel
<1>3. QED
  BY <1>2

\* The lines of an encoded token, joined, are the token.
LEMMA FlattenToken ==
    ASSUME NEW s \in Texts
    PROVE  FlattenSeq(encodeToken(s)) = s
<1> DEFINE t == encodeToken(s)
           n == Count(s)
           D == 1 .. n + 1
           Joins(f) == f = [i \in D |-> IF i = 1 THEN t[i] ELSE f[i - 1] \o t[i]]
           g == [i \in D |-> Prefix(s, i)]
           F == CHOOSE f : Joins(f)
<1>1. n \in Nat \ {0} /\ Len(t) = n + 1
  BY ChunkCount, TokenLines
<1>2. \A i \in 1 .. n : t[i] = Piece(s, i) /\ i \in Chunks(s)
  BY TokenLines, ChunkCount
<1>3. t[n + 1] = <<>>
  BY TokenLines
<1>4. \A i \in D : g[i] = IF i = 1 THEN t[i] ELSE g[i - 1] \o t[i]
  <2>1. g[1] = t[1]
    <3>1. 1 \in Chunks(s) /\ t[1] = Piece(s, 1) /\ g[1] = Prefix(s, 1)
      BY <1>1, <1>2
    <3>2. Piece(s, 1) \in Seq(Char) /\ Prefix(s, 1 - 1) \o Piece(s, 1) = Prefix(s, 1)
      BY <3>1, PrefixGrows
    <3>3. Prefix(s, 1 - 1) = <<>>
      BY PrefixEnds
    <3>4. QED
      BY <3>1, <3>2, <3>3, ConcatEmptySeq
  <2>2. ASSUME NEW i \in 2 .. n PROVE g[i] = g[i - 1] \o t[i]
    <3>1. i \in 1 .. n /\ i \in D /\ i - 1 \in D
      BY <1>1
    <3>2. t[i] = Piece(s, i) /\ i \in Chunks(s)
      BY <1>2, <3>1
    <3>3. Prefix(s, i - 1) \o Piece(s, i) = Prefix(s, i)
      BY <3>2, PrefixGrows
    <3>4. g[i] = Prefix(s, i) /\ g[i - 1] = Prefix(s, i - 1)
      BY <3>1
    <3>5. QED
      BY <3>2, <3>3, <3>4
  <2>3. g[n + 1] = g[n] \o t[n + 1]
    <3>1. g[n] = s /\ g[n + 1] = s
      BY <1>1, PrefixEnds
    <3>2. QED
      BY <1>3, <3>1, TextsAreSeqs, ConcatEmptySeq
  <2> HIDE DEF t, n, g
  <2>4. ASSUME NEW i \in D PROVE i = 1 \/ i \in 2 .. n \/ (i = n + 1 /\ i # 1 /\ i - 1 = n)
    BY <1>1
  <2>5. QED
    BY <2>1, <2>2, <2>3, <2>4
<1>5. Joins(g)
  <2> HIDE DEF t, n
  <2>1. [i \in D |-> IF i = 1 THEN t[i] ELSE g[i - 1] \o t[i]] = g
    BY <1>4
  <2>2. QED
    BY <2>1
<1>6. Joins(F)
  <2> HIDE DEF t, n, g
  <2>1. QED
    BY <1>5
<1>7. FlattenSeq(t) = F[n + 1]
  BY <1>1 DEF FlattenSeq
<1>8. \A i \in D : F[i] = IF i = 1 THEN t[i] ELSE F[i - 1] \o t[i]
  <2> HIDE DEF t, n, F
  <2>1. QED
    BY <1>6
<1> HIDE DEF t, n, g, F
<1>9. \A i \in D : F[i] = g[i]
  <2> DEFINE T == {i \in D : F[i] # g[i]}
  <2>1. SUFFICES ASSUME T # {} PROVE FALSE
    OBVIOUS
  <2>2. T \subseteq Nat
    BY <1>1
  <2>3. PICK i \in T : \A j \in T : i <= j
    <3> HIDE DEF T
    <3>1. QED
      BY <2>1, <2>2, LeastNumber
  <2>4. i # 1
    BY <1>1, <1>4, <1>8
  <2>5. i \in D /\ i - 1 \in D /\ F[i - 1] = g[i - 1]
    BY <1>1, <2>3, <2>4
  <2>6. QED
    BY <1>4, <1>8, <2>4, <2>5
<1>10. g[n + 1] = s
  BY <1>1, PrefixEnds DEF g, n
<1>11. QED
  BY <1>1, <1>7, <1>9, <1>10 DEF t

-----------------------------------------------------------------------------
(***************************************************************************)
(* The options and the key.                                                *)
(***************************************************************************)
Options == [key_type : Types \cup {Unset, ""}, key_size : Sizes \cup {Unset, 0},
            validate_tls_certificate : BOOLEAN \cup {Unset}]

\* An option is what was asked for, or the default.
LEMMA GetAsAsked ==
    ASSUME flags \in Options, file \in Options
    PROVE  /\ Get("key_type") \in Types \cup {""}
           /\ Get("key_size") \in Sizes \cup {0}
           /\ Get("validate_tls_certificate") \in BOOLEAN
<1>1. Get("key_type") \in Types \cup {""}
  BY UnsetAssumption DEF Get, Defaults, Options
<1>2. Get("key_size") \in Sizes \cup {0}
  BY UnsetAssumption DEF Get, Defaults, Options
<1>3. Get("validate_tls_certificate") \in BOOLEAN
  BY UnsetAssumption DEF Get, Defaults, Options
<1>4. QED
  BY <1>1, <1>2, <1>3

LEMMA KeySizes ==
    ASSUME NEW type, NEW size \in Sizes \cup {0}, NEW k \in Keys(type, size)
    PROVE  k.size \in Nat
<1>1. size \in Int
  BY InputAssumption
<1>2. QED
  BY <1>1 DEF Keys, generateRSAKey, generateECDSAKey, generateED25519Key

LEMMA OptionsStart == Init => InputTypeOK /\ OptionsRead
<1> SUFFICES ASSUME Init PROVE InputTypeOK /\ OptionsRead
  OBVIOUS
<1>1. flags \in Options /\ file \in Options /\ c \in Options
  BY DEF Init, Options, Nil
<1>2. QED
  BY <1>1 DEF Init, InputTypeOK, OptionsRead, Options, NoKey

\* ReadConfig makes a Config of the options; GenerateKey makes the key from it;
\* nothing else touches either.
LEMMA OptionsStep ==
    ASSUME InputTypeOK, OptionsRead, [Next]_vars
    PROVE  InputTypeOK' /\ OptionsRead'
<1>1. flags \in Options /\ file \in Options /\ c \in Options /\ key.size \in Nat
  BY DEF InputTypeOK, Options
<1>2. flags' = flags /\ file' = file
  BY DEF Next, ReadConfig, ReadConfigFails, GenerateKey, GenerateKeyFails, GotToken,
         Pasted, Scan, Decode, Over, vars, options
<1>3. ASSUME ReadConfig PROVE InputTypeOK' /\ OptionsRead'
  <2>1. DOMAIN Nil = {"key_type", "key_size", "validate_tls_certificate"}
    BY DEF Nil
  <2>2. c' = [o \in DOMAIN Nil |-> Get(o)]
    BY <1>3 DEF ReadConfig
  <2>3. c' = [key_type |-> Get("key_type"), key_size |-> Get("key_size"),
              validate_tls_certificate |-> Get("validate_tls_certificate")]
    BY <2>1, <2>2
  <2>4. c' \in Options
    BY <1>1, <2>3, GetAsAsked DEF Options, OptionsRead
  <2>5. \A o \in DOMAIN Nil : c'[o] = Get(o)'
    BY <1>2, <2>2 DEF Get
  <2>6. step = "config" /\ step' = "key" /\ UNCHANGED <<key, text, way>>
    BY <1>3 DEF ReadConfig, Goto
  <2>7. key = NoKey
    BY <2>6 DEF OptionsRead
  <2>8. QED
    BY <1>2, <2>4, <2>5, <2>6, <2>7 DEF InputTypeOK, OptionsRead, Options, Nil, NoKey
<1>4. ASSUME GenerateKey PROVE InputTypeOK' /\ OptionsRead'
  <2>1. step = "key" /\ step' = "token" /\ UNCHANGED <<flags, file, c, text, way>>
    BY <1>4 DEF GenerateKey, Goto
  <2>2. key' \in Keys(KeyType(c.key_type), c.key_size)
    BY <1>4 DEF GenerateKey
  <2>3. c.key_size = Get("key_size")
    BY <2>1 DEF OptionsRead, Nil
  <2>4. key'.size \in Nat
    BY <1>1, <2>2, <2>3, KeySizes, GetAsAsked DEF OptionsRead
  <2>5. \A o \in DOMAIN Nil : c'[o] = Get(o)'
    BY <2>1 DEF OptionsRead, Get
  <2>6. QED
    BY <2>1, <2>2, <2>4, <2>5 DEF InputTypeOK, OptionsRead, Nil, NoKey
<1>5. ASSUME UNCHANGED options,
             step \in {"config", "panic"} => step' \in {"config", "panic"},
             step' \in {"config", "key", "panic"} => step \in {"config", "key", "panic"},
             step' \in {"config", "key", "token", "scan", "decode", "send", "exit 1", "panic"},
             text' \in Texts \cup {<<>>}, way' \in {"none", "http", "paste", "part"}
      PROVE  InputTypeOK' /\ OptionsRead'
  <2>1. UNCHANGED <<flags, file, c, key>>
    BY <1>5 DEF options
  <2>2. step' \notin {"config", "panic"} => \A o \in DOMAIN Nil : c'[o] = Get(o)'
    BY <1>5, <2>1 DEF OptionsRead, Get
  <2>3. step' \in {"config", "key", "panic"} => key' = NoKey'
    BY <1>5, <2>1 DEF OptionsRead, NoKey
  <2>4. InputTypeOK'
    BY <1>5, <2>1 DEF InputTypeOK
  <2>5. (key # NoKey)' => key' \in Keys(KeyType(c.key_type), c.key_size)'
    BY <2>1 DEF OptionsRead, NoKey
  <2>6. QED
    BY <2>1, <2>2, <2>3, <2>4, <2>5 DEF OptionsRead
<1>6. CASE ReadConfigFails
  BY <1>5, <1>6 DEF ReadConfigFails, Goto, InputTypeOK
<1>7. CASE GenerateKeyFails
  BY <1>5, <1>7 DEF GenerateKeyFails, Goto, InputTypeOK
<1>8. ASSUME NEW s \in Texts, GotToken(s) PROVE InputTypeOK' /\ OptionsRead'
  BY <1>5, <1>8 DEF GotToken, Goto
<1>9. ASSUME NEW s \in Texts, NEW w \in {"paste", "part"}, Pasted(s, w)
      PROVE  InputTypeOK' /\ OptionsRead'
  BY <1>5, <1>9 DEF Pasted, Goto
<1>10. CASE Scan
  BY <1>5, <1>10 DEF Scan, InputTypeOK
<1>11. CASE Decode
  BY <1>5, <1>11 DEF Decode, InputTypeOK
<1>12. ASSUME UNCHANGED vars PROVE InputTypeOK' /\ OptionsRead'
  BY <1>5, <1>12 DEF vars, InputTypeOK
<1>13. QED
  BY <1>3, <1>4, <1>6, <1>7, <1>8, <1>9, <1>10, <1>11, <1>12 DEF Next, Over

-----------------------------------------------------------------------------
(***************************************************************************)
(* The token.                                                              *)
(***************************************************************************)
\* No line of a token is the "." that ends a paste.
LEMMA DotIsNoChunk == <<".">> \notin Seq(Char)
<1>1. <<".">>[1] = "." /\ Len(<<".">>) = 1
  OBVIOUS
<1>2. "." \notin Char
  BY DEF Char
<1>3. QED
  BY <1>1, <1>2, ElementOfSeq

\* As a query string spells it, a token has a space where it had a "+", and is the
\* same if it had none.
LEMMA FormValueSpaces ==
    ASSUME NEW s \in Texts
    PROVE  /\ Contains(FormValue(s), " ") <=> Contains(s, "+")
           /\ ~Contains(s, "+") => FormValue(s) = s
           /\ ~Contains(s, " ")
<1>1. s \in Seq(Char) /\ DOMAIN s = 1 .. Len(s) /\ Len(s) \in Nat
      /\ \A i \in 1 .. Len(s) : s[i] \in Char
  BY TextsAreSeqs, LenProperties, ElementOfSeq
<1>2. FormValue(s) = [i \in 1 .. Len(s) |-> IF s[i] = "+" THEN " " ELSE s[i]]
  BY <1>1 DEF FormValue
<1>3. FormValue(s) \in Seq(Char \cup {" "}) /\ Len(FormValue(s)) = Len(s)
  <2>1. FormValue(s) \in [1 .. Len(s) -> Char \cup {" "}]
    <3>1. \A i \in 1 .. Len(s) : (IF s[i] = "+" THEN " " ELSE s[i]) \in Char \cup {" "}
      BY <1>1
    <3>2. QED
      BY <1>2, <3>1
  <2>2. QED
    BY <1>1, <2>1, FunctionIsSeq
<1>4. \A i \in 1 .. Len(s) : FormValue(s)[i] = IF s[i] = "+" THEN " " ELSE s[i]
  BY <1>2
<1>5. ~Contains(s, " ")
  BY <1>1 DEF Contains, Char
<1>6. Contains(FormValue(s), " ") <=> Contains(s, "+")
  BY <1>1, <1>3, <1>4 DEF Contains, Char
<1>7. ASSUME ~Contains(s, "+") PROVE FormValue(s) = s
  <2>1. \A i \in 1 .. Len(s) : FormValue(s)[i] = s[i]
    BY <1>4, <1>7 DEF Contains
  <2>2. s \in Seq(Char \cup {" "})
    BY <1>1, SeqMonotonic
  <2>3. QED
    BY <1>3, <2>1, <2>2, SeqEqual
<1>8. QED
  BY <1>5, <1>6, <1>7

\* The loop takes one line at a time: a chunk goes to the buffer, the "." ends it.
LEMMA ScanStep ==
    ASSUME PasteRead, Scan
    PROVE  PasteRead' /\ TokenRead' /\ TokenArrives'
<1>1. step = "scan" /\ UNCHANGED <<text, way>>
  BY DEF Scan
<1>2. CASE way = "part"
  <2>1. stdin \in Seq(Seq(Char))
    BY <1>1, <1>2 DEF PasteRead
  <2>2. Line \in Seq(Char) /\ stdin' \in Seq(Seq(Char))
    <3>1. CASE stdin = <<>>
      BY <3>1 DEF Line, Scan
    <3>2. CASE stdin # <<>>
      <4>1. Line = Head(stdin) /\ stdin' = Tail(stdin)
        BY <3>2 DEF Line, Scan
      <4>2. QED
        BY <2>1, <3>2, <4>1, HeadTailProperties
    <3>3. QED
      BY <3>1, <3>2
  <2>3. Line # <<".">>
    BY <2>2, DotIsNoChunk
  <2>4. step' = "scan"
    BY <2>3 DEF Scan
  <2>5. QED
    BY <1>1, <1>2, <2>2, <2>4 DEF PasteRead, TokenRead, TokenArrives
<1>3. CASE way = "paste"
  <2> DEFINE P == Page(text)
             n == Count(text)
             C == Seq(Char \cup {"."})
  <2>1. text \in Texts
    BY <1>1, <1>3 DEF PasteRead
  <2>2. PICK k \in 1 .. n + 1 : stdin = SubSeq(P, k, Len(P)) /\ buffer = Prefix(text, k - 1)
    BY <1>1, <1>3 DEF PasteRead
  <2>3. /\ n \in Nat \ {0} /\ P \in Seq(C) /\ Len(P) = n + 2
        /\ \A i \in 1 .. n : P[i] = Piece(text, i)
        /\ P[n + 1] = <<".">>
    BY <2>1, PageLines, ChunkCount
  <2> HIDE DEF P, n, C
  <2>4. k \in 1 .. Len(P) /\ Len(P) \in k .. Len(P)
    BY <2>3
  <2>5. Head(stdin) = P[k] /\ Tail(stdin) = SubSeq(P, k + 1, Len(P)) /\ stdin # <<>>
    <3>1. Head(stdin) = P[k] /\ Tail(stdin) = SubSeq(P, k + 1, Len(P))
      BY <2>2, <2>3, <2>4, HeadTailOfSubSeq
    <3>2. stdin = <<P[k]>> \o SubSeq(P, k + 1, Len(P))
      BY <2>2, <2>3, <2>4, SubSeqRecursiveFirst
    <3>3. \A i \in k .. Len(P) : P[i] \in C
      BY <2>3, <2>4, ElementOfSeq
    <3>4. Len(stdin) = Len(P) - k + 1
      BY <2>2, <2>3, <2>4, <3>3, SubSeqProperties
    <3>5. QED
      BY <2>3, <3>1, <3>4
  <2>6. Line = P[k] /\ stdin' = SubSeq(P, k + 1, Len(P))
    BY <2>5 DEF Line, Scan
  <2>7. CASE k = n + 1
    <3>1. step' = "decode" /\ encoded' = buffer
      BY <2>3, <2>6, <2>7 DEF Scan
    <3>2. buffer = text
      BY <2>1, <2>2, <2>3, <2>7, PrefixEnds DEF n
    <3>3. QED
      BY <1>1, <1>3, <2>1, <3>1, <3>2 DEF PasteRead, TokenRead, TokenArrives
  <2>8. CASE k # n + 1
    <3>1. k \in 1 .. n /\ k \in Chunks(text) /\ k + 1 \in 1 .. n + 1
      BY <2>1, <2>3, <2>8, ChunkCount DEF n
    <3>2. Line = Piece(text, k) /\ Line \in Seq(Char)
      BY <2>1, <2>3, <2>6, <3>1, PrefixGrows
    <3>3. Line # <<".">>
      BY <3>2, DotIsNoChunk
    <3>4. step' = "scan" /\ buffer' = buffer \o Line
      BY <3>3 DEF Scan
    <3>5. buffer' = Prefix(text, (k + 1) - 1)
      <4>1. (k + 1) - 1 = k
        BY <3>1
      <4>2. QED
        BY <2>1, <2>2, <3>1, <3>2, <3>4, <4>1, PrefixGrows
    <3>6. PasteRead'
      BY <1>1, <1>3, <2>1, <2>6, <3>1, <3>4, <3>5 DEF PasteRead, P, n
    <3>7. QED
      BY <3>4, <3>6 DEF TokenRead, TokenArrives
  <2>9. QED
    BY <2>7, <2>8
<1>4. QED
  BY <1>1, <1>2, <1>3 DEF PasteRead

\* Decoding fails on a space, which only a token with a "+" has, and only over HTTP.
LEMMA DecodeStep ==
    ASSUME TokenRead, Decode
    PROVE  PasteRead' /\ TokenRead' /\ TokenArrives'
<1>1. step = "decode" /\ UNCHANGED <<text, way, encoded>>
  BY DEF Decode
<1>2. text \in Texts
  BY <1>1 DEF TokenRead
<1>3. CASE Contains(encoded, " ")
  <2>1. step' = "exit 1"
    BY <1>3 DEF Decode
  <2>2. way = "http" /\ Contains(text, "+")
    BY <1>1, <1>2, <1>3, FormValueSpaces DEF TokenRead
  <2>3. QED
    BY <1>1, <2>1, <2>2 DEF PasteRead, TokenRead, TokenArrives
<1>4. CASE ~Contains(encoded, " ")
  <2>1. step' = "send"
    BY <1>4 DEF Decode
  <2>2. encoded = text
    BY <1>1, <1>2, <1>4, FormValueSpaces DEF TokenRead
  <2>3. QED
    BY <1>1, <1>2, <2>1, <2>2 DEF PasteRead, TokenRead, TokenArrives
<1>5. QED
  BY <1>3, <1>4

\* Every step keeps the token whole.
LEMMA TokenStep ==
    ASSUME InputTypeOK, PasteRead, TokenRead, TokenArrives, [Next]_vars
    PROVE  PasteRead' /\ TokenRead' /\ TokenArrives'
<1>1. ASSUME NEW s \in Texts, GotToken(s) PROVE PasteRead' /\ TokenRead' /\ TokenArrives'
  <2>1. step' = "decode" /\ text' = s /\ way' = "http"
    BY <1>1 DEF GotToken, Goto
  <2>2. encoded' = FormValue(s)
    BY <1>1, FlattenToken DEF GotToken
  <2>3. QED
    BY <2>1, <2>2 DEF PasteRead, TokenRead, TokenArrives
<1>2. ASSUME NEW s \in Texts, NEW w \in {"paste", "part"}, Pasted(s, w)
      PROVE  PasteRead' /\ TokenRead' /\ TokenArrives'
  <2>1. step = "token" /\ step' = "scan" /\ text' = s /\ way' = w /\ buffer' = buffer
    BY <1>2 DEF Pasted, Goto
  <2>2. PasteRead'
    <3>1. CASE w = "part"
      <4>1. stdin' \in Seq(Seq(Char))
        BY <1>2, <3>1, TokenLines DEF Pasted
      <4>2. QED
        BY <2>1, <3>1, <4>1 DEF PasteRead
    <3>2. CASE w = "paste"
      <4>1. stdin' = Page(s)
        BY <1>2, <3>2 DEF Pasted
      <4>2. Page(s) = SubSeq(Page(s), 1, Len(Page(s)))
        BY PageLines, SubSeqFull
      <4>3. buffer' = Prefix(s, 1 - 1)
        BY <2>1, PrefixEnds DEF TokenRead
      <4>4. 1 \in 1 .. Count(s) + 1
        BY ChunkCount
      <4>5. QED
        BY <2>1, <3>2, <4>1, <4>2, <4>3, <4>4 DEF PasteRead
    <3>3. QED
      BY <3>1, <3>2
  <2>3. QED
    BY <2>1, <2>2 DEF TokenRead, TokenArrives
<1>3. CASE Scan
  BY <1>3, ScanStep
<1>4. CASE Decode
  BY <1>4, DecodeStep
<1>5. CASE ReadConfig \/ ReadConfigFails \/ GenerateKey \/ GenerateKeyFails
  <2>1. /\ step \in {"config", "key"} /\ step' \in {"key", "token", "panic", "exit 1"}
        /\ UNCHANGED <<way, buffer>>
    BY <1>5 DEF ReadConfig, ReadConfigFails, GenerateKey, GenerateKeyFails, Goto
  <2>2. QED
    BY <2>1 DEF PasteRead, TokenRead, TokenArrives
<1>6. ASSUME UNCHANGED vars PROVE PasteRead' /\ TokenRead' /\ TokenArrives'
  BY <1>6 DEF vars, PasteRead, TokenRead, TokenArrives
<1>7. QED
  BY <1>1, <1>2, <1>3, <1>4, <1>5, <1>6 DEF Next, Over

-----------------------------------------------------------------------------
(***************************************************************************)
(* The theorems.                                                           *)
(***************************************************************************)
LEMMA InputInvariance == Spec => []InputInv
<1>1. Init => InputInv
  BY OptionsStart DEF InputInv, Init, PasteRead, TokenRead, TokenArrives
<1>2. InputInv /\ [Next]_vars => InputInv'
  BY OptionsStep, TokenStep DEF InputInv
<1>3. QED
  BY <1>1, <1>2, PTL DEF Spec

\* The token that goes to the CA is the one the server had, whatever the size of
\* a chunk and the length of the token; it is refused only for a "+" over HTTP.
THEOREM TokenWhole == Spec => []TokenArrives
<1>1. InputInv => TokenArrives
  BY DEF InputInv
<1>2. QED
  BY <1>1, InputInvariance, PTL

\* The key made of a type and a size.
LEMMA KeyMadeOf ==
    ASSUME NEW type, NEW size \in Sizes \cup {0}, NEW k \in Keys(KeyType(type), size)
    PROVE  /\ \E t \in DOMAIN Kind : k.kind = Kind[t]
           /\ \A t \in DOMAIN Kind : type = t => k.kind = Kind[t]
           /\ size # 0 => k.size = size \/ k.kind = Kind.ed25519
           /\ size = 0 => \E t \in DOMAIN Kind :
                 k = [kind |-> Kind[t], size |-> IF t = "rsa" THEN 2048 ELSE 256]
<1> USE DEF Kind, generateRSAKey, generateECDSAKey, generateED25519Key
<1>1. size \in Int
  BY InputAssumption
<1>2. DOMAIN Kind = {"rsa", "ecdsa", "ed25519"}
  OBVIOUS
<1>3. CASE KeyType(type) = "rsa"
  <2>1. type \in {"", "rsa"}
    BY <1>3 DEF KeyType
  <2>2. k \in generateRSAKey(IF size = 0 THEN 2048 ELSE size)
    BY <1>3 DEF Keys
  <2>3. k = [kind |-> "*rsa.PrivateKey", size |-> IF size = 0 THEN 2048 ELSE size]
    BY <2>2
  <2>4. Kind["rsa"] = "*rsa.PrivateKey"
    OBVIOUS
  <2>5. k.kind = Kind["rsa"] /\ k.size = IF size = 0 THEN 2048 ELSE size
    BY <2>3
  <2>6. \A t \in DOMAIN Kind : type = t => t = "rsa"
    BY <1>2, <2>1
  <2>7. size = 0 => \E t \in DOMAIN Kind :
           k = [kind |-> Kind[t], size |-> IF t = "rsa" THEN 2048 ELSE 256]
    <3> HIDE DEF Kind
    <3>1. size = 0 => k = [kind |-> Kind["rsa"], size |-> IF "rsa" = "rsa" THEN 2048 ELSE 256]
      BY <2>3, <2>4
    <3>2. QED
      BY <1>2, <3>1
  <2> HIDE DEF Kind
  <2>8. QED
    BY <1>2, <2>5, <2>6, <2>7
<1>4. CASE KeyType(type) = "ecdsa"
  <2>1. type = "ecdsa"
    BY <1>4 DEF KeyType
  <2>2. k = [kind |-> "*ecdsa.PrivateKey", size |-> IF size = 0 THEN 256 ELSE size]
    BY <1>1, <1>4 DEF Keys
  <2>3. QED
    BY <1>1, <1>2, <2>1, <2>2
<1>5. CASE KeyType(type) = "ed25519"
  <2>1. type = "ed25519"
    BY <1>5 DEF KeyType
  <2>2. k = [kind |-> "*ed25519.PrivateKey", size |-> 256]
    BY <1>5 DEF Keys
  <2>3. QED
    BY <1>1, <1>2, <2>1, <2>2
<1>6. CASE KeyType(type) \notin {"rsa", "ecdsa", "ed25519"}
  <2>1. type \notin {"rsa", "ecdsa", "ed25519"}
    BY <1>6 DEF KeyType
  <2>2. size > 0 /\ k = [kind |-> "*rsa.PrivateKey", size |-> size]
    BY <1>1, <1>6 DEF Keys
  <2>3. QED
    BY <1>1, <1>2, <2>1, <2>2
<1>7. QED
  BY <1>3, <1>4, <1>5, <1>6

\* The key pair is of the type and size asked for and can be written to a file,
\* for any types and sizes that may be asked for, on the command line or in the
\* file; an RSA key below the minimum is only shown to be one.
THEOREM KeyMade == Spec => []KeyAsAsked
<1>1. ASSUME InputInv PROVE KeyAsAsked
  <2>1. InputTypeOK /\ OptionsRead
    BY <1>1 DEF InputInv
  <2>2. flags \in Options /\ file \in Options
    BY <2>1 DEF InputTypeOK, Options
  <2>3. step \notin {"config", "panic"} =>
           c.key_type = Get("key_type") /\ c.key_size = Get("key_size")
    BY <2>1 DEF OptionsRead, Nil
  <2>4. ASSUME key # NoKey
        PROVE  /\ pemBlockForKey(key)
               /\ \A t \in DOMAIN Kind : Asked("key_type", t) => key.kind = Kind[t]
               /\ \A n \in Sizes \ {0} :
                     Asked("key_size", n) =>
                        key.size = n \/ key.kind = Kind.ed25519 \/ BelowMinimum(key)
               /\ (\A n \in Sizes \ {0} : ~Asked("key_size", n)) =>
                     \E t \in DOMAIN Kind :
                        key = [kind |-> Kind[t], size |-> IF t = "rsa" THEN 2048 ELSE 256]
    <3>1. key \in Keys(KeyType(Get("key_type")), Get("key_size"))
      BY <2>1, <2>3, <2>4 DEF OptionsRead
    <3>2. Get("key_size") \in Sizes \cup {0}
      BY <2>2, GetAsAsked
    <3>3. DOMAIN Kind = {"rsa", "ecdsa", "ed25519"}
      BY DEF Kind
    <3>4. \A t \in DOMAIN Kind : Asked("key_type", t) => Get("key_type") = t
      BY <3>3, UnsetAssumption DEF Asked, Get
    <3>5. \A n \in Sizes \ {0} : Asked("key_size", n) => Get("key_size") = n
      BY UnsetAssumption DEF Asked, Get
    <3>6. Get("key_size") # 0 => Asked("key_size", Get("key_size"))
      BY DEF Asked, Get, Defaults
    <3>7. \E t \in DOMAIN Kind : key.kind = Kind[t]
      BY <3>1, <3>2, KeyMadeOf
    <3>8. pemBlockForKey(key)
      BY <3>3, <3>7 DEF Kind, pemBlockForKey
    <3>9. QED
      BY <3>1, <3>2, <3>4, <3>5, <3>6, <3>8, KeyMadeOf
  <2>5. QED
    BY <2>1, <2>4 DEF KeyAsAsked
<1>2. QED
  BY <1>1, InputInvariance, PTL
=============================================================================
