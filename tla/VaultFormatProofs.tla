-------------------------- MODULE VaultFormatProofs --------------------------
(***************************************************************************)
(* What load_vault accepts from a file that any number of save_vault calls *)
(* have written, truncated and left half-written, for any number of calls, *)
(* keys, passwords, machines and any size of the vault: LoadedWasSaved.    *)
(*                                                                         *)
(* The invariant says of each cell which call it may come from.  The rest  *)
(* is one argument about a file that loads: the content's tag can only     *)
(* stand at the end of its own call's image, its additional data fixes     *)
(* that call's salt, mode and sequence number, the key derived from the    *)
(* salt fixes the wrapped key's call, and so every cell is of one image.   *)
(***************************************************************************)
EXTENDS VaultFormat, SequenceTheorems, TLAPS

-----------------------------------------------------------------------------
(* Sequences *)

\* A function on 1..n is a sequence of that length, over its own values.
LEMMA FunctionIsSeq ==
  ASSUME NEW n \in Nat, NEW f, f = [i \in 1..n |-> f[i]]
  PROVE  Len(f) = n /\ f \in Seq({f[i] : i \in 1..n})
<1>. DEFINE S == {f[i] : i \in 1..n}
<1>1. f \in [1..n -> S]
  OBVIOUS
<1>2. f \in Seq(S)
  BY <1>1
<1>. QED
  BY <1>1, <1>2, LenProperties

\* A concatenation has the cells of its parts, whatever their kinds.
LEMMA Joined ==
  ASSUME NEW m \in Nat, NEW n \in Nat, NEW s, NEW t,
         s = [i \in 1..m |-> s[i]], t = [i \in 1..n |-> t[i]]
  PROVE  s \o t = [i \in 1..m + n |-> IF i <= m THEN s[i] ELSE t[i - m]]
<1>. DEFINE S == {s[i] : i \in 1..m} \cup {t[i] : i \in 1..n}
<1>1. s \in Seq(S) /\ t \in Seq(S) /\ Len(s) = m /\ Len(t) = n
  <2>1. s \in [1..m -> S] /\ t \in [1..n -> S]
    OBVIOUS
  <2>2. s \in Seq(S) /\ t \in Seq(S)
    BY SMTT(30), <2>1
  <2>. QED
    BY <2>2, FunctionIsSeq
<1>. HIDE DEF S
<1>2. /\ s \o t \in Seq(S)
      /\ Len(s \o t) = m + n
      /\ \A i \in 1..m + n : (s \o t)[i] = IF i <= m THEN s[i] ELSE t[i - m]
  BY ZenonT(60), <1>1, ConcatProperties
<1>3. s \o t \in [1..m + n -> S]
  BY <1>2, LenProperties
<1>. QED
  BY <1>2, <1>3

-----------------------------------------------------------------------------
(* The layout of an image *)

WrappedLen(s) == IF s.vault.mode = "Portable" THEN 2 ELSE 3

\* An envelope cell by cell: the ciphertext, then its tag.
LEMMA EnvelopeIs ==
  ASSUME NEW e, e.size \in Nat
  PROVE  Envelope(e) = [i \in 1..e.size + 1 |->
                          IF i <= e.size THEN <<"ciphertext", <<e, i>>>> ELSE Tag(e)]
<1>. DEFINE c == Ciphertext(e)
            S == {c[i] : i \in 1..e.size} \cup {Tag(e)}
<1>1. c = [i \in 1..e.size |-> <<"ciphertext", <<e, i>>>>]
  BY DEF Ciphertext
<1>2. c \in [1..e.size -> S]
  BY <1>1
<1>3. c \in Seq(S) /\ Len(c) = e.size
  <2>1. c = [i \in 1..e.size |-> c[i]]
    BY <1>2
  <2>. HIDE DEF c
  <2>2. c \in Seq(S)
    BY <1>2
  <2>3. Len(c) = e.size
    BY <2>1, FunctionIsSeq
  <2>. QED
    BY <2>2, <2>3
<1>4. Tag(e) \in S
  OBVIOUS
<1>. HIDE DEF S
<1>5. Append(c, Tag(e)) \in Seq(S) /\ Len(Append(c, Tag(e))) = e.size + 1
  BY <1>3, <1>4, AppendProperties
<1>6. \A i \in 1..e.size : Append(c, Tag(e))[i] = c[i]
  BY <1>3, <1>4, AppendProperties
<1>7. Append(c, Tag(e))[e.size + 1] = Tag(e)
  BY <1>3, <1>4, AppendProperties
<1>8. Append(c, Tag(e)) \in [1..e.size + 1 -> S]
  BY <1>5, LenProperties
<1>. QED
  BY <1>1, <1>6, <1>7, <1>8 DEF Envelope

\* A wrapped key cell by cell, plain or sealed by the TPM.
LEMMA WrappedKeyIs ==
  ASSUME NEW w, NEW s
  PROVE  /\ WrappedKey(w, s) = [i \in 1..WrappedLen(s) |-> WrappedKey(w, s)[i]]
         /\ s.vault.mode = "Portable" =>
              /\ WrappedKey(w, s)[1] = <<"ciphertext", <<Wrapping(w, s), 1>>>>
              /\ WrappedKey(w, s)[2] = Tag(Wrapping(w, s))
         /\ s.vault.mode # "Portable" => \A i \in 1..3 :
              WrappedKey(w, s)[i] = <<"sealed", <<Envelope(Wrapping(w, s)), Here, i>>>>
<1>1. Wrapping(w, s).size = 1
  BY DEF Wrapping
<1>2. Envelope(Wrapping(w, s))
        = [i \in 1..2 |-> IF i <= 1 THEN <<"ciphertext", <<Wrapping(w, s), i>>>>
                                    ELSE Tag(Wrapping(w, s))]
  BY <1>1, EnvelopeIs
<1>3. CASE s.vault.mode = "Portable"
  BY <1>2, <1>3 DEF WrappedKey, WrappedLen
<1>4. CASE s.vault.mode # "Portable"
  BY <1>4 DEF WrappedKey, WrappedLen, seal_key, SealedLen
<1>. QED
  BY <1>3, <1>4

ImageLen(s) == 8 + WrappedLen(s) + s.vault.text

\* Where the fields of an image are.
LEMMA ImageIs ==
  ASSUME NEW w, NEW s, s.vault.text \in Nat
  PROVE  /\ Image(w, s) = [i \in 1..ImageLen(s) |-> Image(w, s)[i]]
         /\ Len(Image(w, s)) = ImageLen(s)
         /\ Image(w, s)[1] = Prefix
         /\ Image(w, s)[2] = <<"mode", s.vault.mode>>
         /\ Image(w, s)[3] = Salt(w)
         /\ Image(w, s)[4] = WrapperNonce(w)
         /\ Image(w, s)[5] = <<"key_len", WrappedLen(s)>>
         /\ \A i \in 1..WrappedLen(s) : Image(w, s)[5 + i] = WrappedKey(w, s)[i]
         /\ Image(w, s)[6 + WrappedLen(s)] = SeqNum(s)
         /\ Image(w, s)[7 + WrappedLen(s)] = ContentNonce(w)
         /\ \A i \in 1..s.vault.text :
              Image(w, s)[7 + WrappedLen(s) + i] = <<"ciphertext", <<Content(w, s), i>>>>
         /\ Image(w, s)[ImageLen(s)] = Tag(Content(w, s))
<1>. DEFINE K == WrappedLen(s)
            T == s.vault.text
            I == Image(w, s)
            C == Content(w, s)
            A == <<Prefix, <<"mode", s.vault.mode>>, Salt(w), WrapperNonce(w),
                   <<"key_len", Len(WrappedKey(w, s))>>>>
            B == WrappedKey(w, s)
            D == <<SeqNum(s), ContentNonce(w)>>
            E == Envelope(C)
<1>1. K \in Nat
  BY DEF WrappedLen
<1>2. B = [i \in 1..K |-> B[i]] /\ Len(B) = K
  BY <1>1, WrappedKeyIs, FunctionIsSeq
<1>3. E = [i \in 1..T + 1 |-> IF i <= T THEN <<"ciphertext", <<C, i>>>> ELSE Tag(C)]
  <2>1. C.size = T
    BY DEF Content
  <2>. QED
    BY <2>1, EnvelopeIs
<1>4. /\ A = [i \in 1..5 |-> A[i]] /\ D = [i \in 1..2 |-> D[i]]
      /\ E = [i \in 1..T + 1 |-> E[i]]
      /\ A[1] = Prefix /\ A[2] = <<"mode", s.vault.mode>> /\ A[3] = Salt(w)
      /\ A[4] = WrapperNonce(w) /\ A[5] = <<"key_len", Len(B)>>
      /\ D[1] = SeqNum(s) /\ D[2] = ContentNonce(w)
  BY <1>3
<1>5. I = ((A \o B) \o D) \o E
  BY DEF Image
<1>. HIDE DEF A, B, C, D, E, I, K, T
<1>6. A \o B = [i \in 1..5 + K |-> IF i <= 5 THEN A[i] ELSE B[i - 5]]
  BY <1>1, <1>2, <1>4, Joined
<1>7. (A \o B) \o D = [i \in 1..7 + K |-> IF i <= 5 + K THEN (A \o B)[i] ELSE D[i - (5 + K)]]
  <2>1. A \o B = [i \in 1..5 + K |-> (A \o B)[i]]
    BY <1>6
  <2>2. 5 + K \in Nat /\ 5 + K + 2 = 7 + K
    BY <1>1
  <2>. QED
    BY <1>4, <2>1, <2>2, Joined
<1>8. T \in Nat
  BY DEF T
<1>9. I = [i \in 1..8 + K + T |-> IF i <= 7 + K THEN ((A \o B) \o D)[i] ELSE E[i - (7 + K)]]
  <2>1. (A \o B) \o D = [i \in 1..7 + K |-> ((A \o B) \o D)[i]]
    BY <1>7
  <2>. DEFINE F == (A \o B) \o D
              M == 7 + K
              N == T + 1
  <2>2. M \in Nat /\ N \in Nat /\ M + N = 8 + K + T
    BY <1>1, <1>8
  <2>3. F = [i \in 1..M |-> F[i]] /\ E = [i \in 1..N |-> E[i]] /\ I = F \o E
    BY <1>4, <1>5, <2>1
  <2>. HIDE DEF F, M, N
  <2>4. I = [i \in 1..M + N |-> IF i <= M THEN F[i] ELSE E[i - M]]
    BY <2>2, <2>3, Joined
  <2>. QED
    BY <2>2, <2>4 DEF F, M
<1>10. I = [i \in 1..8 + K + T |-> I[i]] /\ Len(I) = 8 + K + T
  <2>1. I = [i \in 1..8 + K + T |-> I[i]]
    BY <1>9
  <2>. QED
    BY <2>1, <1>1, <1>8, FunctionIsSeq
<1>11. \A i \in 1..5 : I[i] = A[i]
  BY <1>1, <1>6, <1>7, <1>8, <1>9
<1>12. \A i \in 1..K : I[5 + i] = B[i]
  BY <1>1, <1>6, <1>7, <1>8, <1>9
<1>13. I[6 + K] = D[1] /\ I[7 + K] = D[2]
  BY SMTT(30), <1>1, <1>7, <1>8, <1>9
<1>14. \A i \in 1..T + 1 : I[7 + K + i] = E[i]
  BY <1>1, <1>8, <1>9
<1>15. /\ \A i \in 1..T : I[7 + K + i] = <<"ciphertext", <<C, i>>>>
       /\ I[8 + K + T] = Tag(C)
  <2>1. T + 1 \in 1..T + 1 /\ 7 + K + (T + 1) = 8 + K + T /\ ~(T + 1 <= T)
    BY <1>1, <1>8
  <2>2. E[T + 1] = Tag(C)
    BY <1>3, <2>1
  <2>3. \A i \in 1..T : i \in 1..T + 1 /\ E[i] = <<"ciphertext", <<C, i>>>>
    BY <1>3, <1>8
  <2>. QED
    BY <1>14, <2>1, <2>2, <2>3
<1>16. /\ I[1] = Prefix /\ I[2] = <<"mode", s.vault.mode>> /\ I[3] = Salt(w)
       /\ I[4] = WrapperNonce(w) /\ I[5] = <<"key_len", K>>
  <2>1. I[1] = A[1] /\ I[2] = A[2] /\ I[3] = A[3] /\ I[4] = A[4] /\ I[5] = A[5]
    BY <1>11
  <2>2. Len(B) = K
    BY <1>2
  <2>3. /\ A[1] = Prefix /\ A[2] = <<"mode", s.vault.mode>> /\ A[3] = Salt(w)
        /\ A[4] = WrapperNonce(w) /\ A[5] = <<"key_len", Len(B)>>
    BY <1>4
  <2>. QED
    BY <2>1, <2>2, <2>3
<1>17. I[6 + K] = SeqNum(s) /\ I[7 + K] = ContentNonce(w)
  BY <1>4, <1>13
<1>18. ImageLen(s) = 8 + K + T
  BY DEF ImageLen, K, T
<1>. QED
  BY <1>10, <1>12, <1>15, <1>16, <1>17, <1>18 DEF B, C, I, K, T
-----------------------------------------------------------------------------
(* The invariant *)

\* A call that wrote was given a password, and wrote no more than its image.
Writers == \A w \in Writer : pos[w] > 0 =>
             Begun(w) /\ save[w].pass # NoPassword /\ pos[w] <= Size(w)

\* Each cell of the file is a zero or one that a call wrote there.
From(w, i) == pos[w] >= i /\ file[i] = Image(w, save[w])[i]
Cells ==
  /\ Len(file) \in Nat
  /\ file = [i \in 1..Len(file) |-> file[i]]
  /\ \A i \in 1..Len(file) : file[i] = Zero \/ \E w \in Writer : From(w, i)

\* While one call is alone, the file is what it has written so far.
Alone == \A w \in Writer : owner = w =>
           /\ Begun(w)
           /\ Len(file) = pos[w]
           /\ \A i \in 1..pos[w] : file[i] = Image(w, save[w])[i]

Types == /\ save \in [Writer -> SaveCall \cup {NoSave}]
         /\ pos \in [Writer -> Nat]
         /\ owner \in Writer \cup {NoWriter}

IInv == Types /\ Writers /\ Cells /\ Alone

\* The fields of a save.
LEMMA SaveCallHas ==
  ASSUME NEW s \in SaveCall
  PROVE  /\ s.vault.text \in Nat \ {0}
         /\ s.vault.mode \in VaultMode
         /\ s.key \in Key
         /\ s.pass \in Password \cup {NoPassword}
         /\ s.vault.mode = ModeOf[s.key]
  BY FormatAssumption DEF SaveCall, Vault

\* How many cells a save that has begun writes.
LEMMA SizeIs ==
  ASSUME Types, NEW w \in Writer, Begun(w)
  PROVE  save[w] \in SaveCall /\ Size(w) = ImageLen(save[w]) /\ Size(w) \in Nat
<1>1. save[w] \in SaveCall
  BY DEF Types, Begun
<1>2. save[w].vault.text \in Nat
  BY <1>1, SaveCallHas
<1>3. Len(Image(w, save[w])) = ImageLen(save[w])
  BY <1>2, ImageIs
<1>. QED
  BY <1>1, <1>2, <1>3 DEF Size, ImageLen, WrappedLen

\* A file that was just truncated.
LEMMA EmptyFile ==
  Len(<<>>) = 0 /\ <<>> = [i \in 1..0 |-> <<>>[i]]
OBVIOUS

\* The invariant holds before any save.
LEMMA InitIInv == Init => IInv
<1>. SUFFICES ASSUME Init PROVE IInv
  OBVIOUS
<1>. USE DEF Init
<1>1. Types
  BY DEF Types
<1>2. Writers
  BY DEF Writers
<1>3. Cells
  BY EmptyFile DEF Cells
<1>4. Alone
  BY FormatAssumption DEF Alone
<1>. QED
  BY <1>1, <1>2, <1>3, <1>4 DEF IInv

\* A save that begins keeps it,
LEMMA CreateKeeps ==
  ASSUME IInv, NEW w \in Writer, NEW s \in SaveCall, Create(w, s)
  PROVE  IInv'
<1>. USE DEF IInv
<1>1. file' = <<>> /\ pos' = pos /\ owner' = w /\ ~Begun(w)
  BY DEF Create, Truncated
<1>2. /\ save' \in [Writer -> SaveCall \cup {NoSave}]
      /\ save'[w] = s
      /\ \A x \in Writer \ {w} : save'[x] = save[x]
  BY DEF Create, Types
<1>3. pos[w] = 0
  BY <1>1 DEF Writers, Types
<1>4. Types'
  BY <1>1, <1>2 DEF Types
<1>5. Writers'
  <2>. SUFFICES ASSUME NEW x \in Writer, pos[x] > 0
                PROVE  Begun(x)' /\ save'[x].pass # NoPassword /\ pos[x] <= Size(x)'
    BY <1>1 DEF Writers
  <2>1. x # w
    BY <1>3
  <2>2. save'[x] = save[x]
    BY <1>2, <2>1
  <2>. QED
    BY <2>2 DEF Writers, Begun, Size
<1>6. Cells'
  BY <1>1, EmptyFile DEF Cells
<1>7. Alone'
  <2>1. Begun(w)'
    BY <1>2, FormatAssumption DEF Begun
  <2>. QED
    BY <1>1, <1>3, <2>1, EmptyFile DEF Alone
<1>. QED
  BY <1>4, <1>5, <1>6, <1>7

\* and so does the next cell of one.
LEMMA WriteKeeps ==
  ASSUME IInv, NEW w \in Writer, Write(w)
  PROVE  IInv'
<1>. USE DEF IInv
<1>. DEFINE p == pos[w]
            n == Len(file)
            m == IF p + 1 > n THEN p + 1 ELSE n
            c == Image(w, save[w])[p + 1]
<1>1. /\ Begun(w) /\ save[w].pass # NoPassword /\ p < Size(w)
      /\ save' = save /\ owner' = (IF owner = w THEN w ELSE NoWriter)
      /\ pos' = [pos EXCEPT ![w] = p + 1]
  BY DEF Write
<1>2. p \in Nat /\ n \in Nat /\ m \in Nat /\ Size(w) \in Nat
  BY <1>1, SizeIs DEF Types, Cells
<1>3. /\ pos' \in [Writer -> Nat] /\ pos'[w] = p + 1
      /\ \A x \in Writer \ {w} : pos'[x] = pos[x]
      /\ \A x \in Writer : pos'[x] \in Nat /\ pos[x] \in Nat /\ pos'[x] >= pos[x]
  BY <1>1, <1>2 DEF Types
<1>4. file' = [j \in 1..m |-> IF j = p + 1 THEN c ELSE IF j <= n THEN file[j] ELSE Zero]
  BY DEF Write, Overwritten
<1>5. Len(file') = m /\ file' = [j \in 1..m |-> file'[j]]
  <2>1. file' = [j \in 1..m |-> file'[j]]
    BY <1>4
  <2>. HIDE DEF m
  <2>. QED
    BY <2>1, <1>2, FunctionIsSeq
<1>6. Types'
  BY <1>1, <1>3 DEF Types
<1>7. Writers'
  <2>. SUFFICES ASSUME NEW x \in Writer, pos'[x] > 0
                PROVE  Begun(x) /\ save[x].pass # NoPassword /\ pos'[x] <= Size(x)
    BY <1>1 DEF Writers, Begun, Size
  <2>1. CASE x = w
    BY <1>1, <1>2, <1>3, <2>1
  <2>2. CASE x # w
    BY <1>3, <2>2 DEF Writers
  <2>. QED
    BY <2>1, <2>2
<1>8. Cells'
  <2>. SUFFICES ASSUME NEW i \in 1..m
                PROVE  file'[i] = Zero \/ \E x \in Writer : From(x, i)'
    BY <1>2, <1>5 DEF Cells
  <2>1. CASE i = p + 1
    <3>1. From(w, i)'
      BY <1>1, <1>2, <1>3, <1>4, <2>1 DEF From
    <3>. QED
      BY <3>1
  <2>2. CASE i # p + 1 /\ i <= n
    <3>1. file'[i] = file[i] /\ i \in 1..n
      BY <1>2, <1>4, <2>2
    <3>2. ASSUME NEW x \in Writer, From(x, i)
          PROVE  From(x, i)'
      BY <1>1, <1>2, <1>3, <3>1, <3>2 DEF From
    <3>. QED
      BY <3>1, <3>2 DEF Cells
  <2>3. CASE i # p + 1 /\ ~(i <= n)
    BY <1>4, <2>3
  <2>. QED
    BY <2>1, <2>2, <2>3
<1>9. Alone'
  <2>. SUFFICES ASSUME owner = w
                PROVE  /\ Begun(w)
                       /\ Len(file') = p + 1
                       /\ \A i \in 1..p + 1 : file'[i] = Image(w, save[w])[i]
    BY <1>1, <1>3, FormatAssumption DEF Alone, Begun
  <2>1. n = p /\ m = p + 1 /\ \A i \in 1..p : file[i] = Image(w, save[w])[i]
    BY <1>2 DEF Alone
  <2>2. \A i \in 1..p + 1 : file'[i] = Image(w, save[w])[i]
    BY <1>2, <1>4, <2>1
  <2>. QED
    BY <1>1, <1>5, <2>1, <2>2
<1>. QED
  BY <1>6, <1>7, <1>8, <1>9

\* Every step keeps the invariant (File::create, write_all).
LEMMA NextIInv == IInv /\ [Next]_vars => IInv'
<1>. SUFFICES ASSUME IInv, [Next]_vars PROVE IInv'
  OBVIOUS
<1>1. ASSUME NEW w \in Writer, Write(w) PROVE IInv'
  BY <1>1, WriteKeeps
<1>2. ASSUME NEW w \in Writer, NEW s \in SaveCall, Create(w, s) PROVE IInv'
  BY <1>2, CreateKeeps
<1>3. CASE UNCHANGED vars
  BY <1>3 DEF vars, IInv, Types, Writers, Cells, Alone, From, Begun, Size
<1>. QED
  BY <1>1, <1>2, <1>3 DEF Next

\* The invariant of the save calls, for any number of them.
THEOREM FormatInvariance == Spec => []IInv
<1>. QED
  BY InitIInv, NextIInv, PTL DEF Spec
\* The types of the calls, and the origin of every cell.
THEOREM FormatTypeCorrect == Spec => []TypeOK
<1>1. IInv => TypeOK
  <2>. SUFFICES ASSUME IInv PROVE TypeOK
    OBVIOUS
  <2>. USE DEF IInv
  <2>1. ASSUME NEW i \in 1..Len(file), file[i] # Zero
        PROVE  i \in UNION {WrittenBy(w) : w \in {x \in Writer : pos[x] > 0}}
    <3>1. PICK w \in Writer : From(w, i)
      BY <2>1 DEF Cells
    <3>2. pos[w] > 0 /\ i \in WrittenBy(w)
      BY <3>1 DEF From, WrittenBy, Types, Cells
    <3>. QED
      BY <3>2
  <2>. QED
    BY <2>1 DEF TypeOK, Types
<1>. QED
  BY <1>1, FormatInvariance, PTL

-----------------------------------------------------------------------------
(* Which call a cell comes from *)

\* The parts of an image, by position.
LEMMA Positions ==
  ASSUME NEW w, NEW s \in SaveCall, NEW i \in 1..ImageLen(s)
  PROVE  \/ i = 1 /\ Image(w, s)[i][1] = "prefix"
         \/ i = 2 /\ Image(w, s)[i][1] = "mode"
         \/ i = 3 /\ Image(w, s)[i][1] = "salt"
         \/ i = 4 /\ Image(w, s)[i][1] = "wrapper_nonce"
         \/ i = 5 /\ Image(w, s)[i][1] = "key_len"
         \/ i \in 6..5 + WrappedLen(s) /\ Image(w, s)[i] = WrappedKey(w, s)[i - 5]
         \/ i = 6 + WrappedLen(s) /\ Image(w, s)[i][1] = "sequence_number"
         \/ i = 7 + WrappedLen(s) /\ Image(w, s)[i][1] = "content_nonce"
         \/ i \in 8 + WrappedLen(s)..ImageLen(s) - 1 /\ Image(w, s)[i][1] = "ciphertext"
         \/ i = ImageLen(s) /\ Image(w, s)[i] = Tag(Content(w, s))
<1>. DEFINE K == WrappedLen(s)
            T == s.vault.text
            L == ImageLen(s)
<1>1. T \in Nat /\ K \in Nat /\ L = 8 + K + T
  BY SaveCallHas DEF WrappedLen, ImageLen
<1>2. /\ Image(w, s)[1] = Prefix
      /\ Image(w, s)[2] = <<"mode", s.vault.mode>>
      /\ Image(w, s)[3] = Salt(w)
      /\ Image(w, s)[4] = WrapperNonce(w)
      /\ Image(w, s)[5] = <<"key_len", K>>
  BY <1>1, ImageIs
<1>3. /\ \A j \in 1..K : Image(w, s)[5 + j] = WrappedKey(w, s)[j]
      /\ Image(w, s)[6 + K] = SeqNum(s)
      /\ Image(w, s)[7 + K] = ContentNonce(w)
      /\ \A j \in 1..T : Image(w, s)[7 + K + j] = <<"ciphertext", <<Content(w, s), j>>>>
      /\ Image(w, s)[L] = Tag(Content(w, s))
  <2>1. s.vault.text \in Nat
    BY SaveCallHas
  <2>. QED
    BY <2>1, ImageIs
<1>. HIDE DEF K, T, L
<1>4. i \in 1..5 \/ i \in 6..5 + K \/ i = 6 + K \/ i = 7 + K \/ i \in 8 + K..L - 1 \/ i = L
  BY <1>1 DEF L
<1>5. CASE i \in 1..5
  <2>1. i = 1 \/ i = 2 \/ i = 3 \/ i = 4 \/ i = 5
    BY <1>5
  <2>2. /\ Image(w, s)[1][1] = "prefix" /\ Image(w, s)[2][1] = "mode"
        /\ Image(w, s)[3][1] = "salt" /\ Image(w, s)[4][1] = "wrapper_nonce"
        /\ Image(w, s)[5][1] = "key_len"
    <3>1. Prefix[1] = "prefix" /\ Salt(w)[1] = "salt" /\ WrapperNonce(w)[1] = "wrapper_nonce"
      BY DEF Prefix, Salt, WrapperNonce
    <3>. QED
      BY <1>2, <3>1
  <2>. QED
    BY <2>1, <2>2
<1>6. CASE i \in 6..5 + K
  <2>1. i - 5 \in 1..K /\ 5 + (i - 5) = i
    BY <1>1, <1>6
  <2>2. Image(w, s)[i] = WrappedKey(w, s)[i - 5]
    BY <1>3, <2>1
  <2>. QED
    BY <1>6, <2>2 DEF K
<1>7. CASE i = 6 + K
  BY <1>3, <1>7 DEF K, SeqNum
<1>8. CASE i = 7 + K
  BY <1>3, <1>8 DEF K, ContentNonce
<1>9. CASE i \in 8 + K..L - 1
  <2>1. i - (7 + K) \in 1..T /\ 7 + K + (i - (7 + K)) = i
    BY <1>1, <1>9
  <2>2. Image(w, s)[i] = <<"ciphertext", <<Content(w, s), i - (7 + K)>>>>
    BY <1>3, <2>1
  <2>3. Image(w, s)[i][1] = "ciphertext"
    BY <2>2
  <2>. QED
    BY <1>9, <2>3 DEF K, L
<1>10. CASE i = L
  BY <1>3, <1>10 DEF L
<1>. QED
  BY <1>4, <1>5, <1>6, <1>7, <1>8, <1>9, <1>10

\* A tag is the content's, at the end, or that of a wrapped key, in its place.
LEMMA TagCell ==
  ASSUME NEW w, NEW s \in SaveCall, NEW i \in 1..ImageLen(s), Image(w, s)[i][1] = "tag"
  PROVE  \/ i = ImageLen(s) /\ Image(w, s)[i] = Tag(Content(w, s))
         \/ /\ s.vault.mode = "Portable" /\ i = 7
            /\ Image(w, s)[i] = Tag(Wrapping(w, s))
<1>1. CASE i \in 6..5 + WrappedLen(s) /\ Image(w, s)[i] = WrappedKey(w, s)[i - 5]
  <2>1. CASE s.vault.mode = "Portable"
    <3>1. WrappedLen(s) = 2
      BY <2>1 DEF WrappedLen
    <3>2. i = 6 \/ i = 7
      BY <1>1, <3>1
    <3>3. WrappedKey(w, s)[1][1] = "ciphertext" /\ WrappedKey(w, s)[2] = Tag(Wrapping(w, s))
      BY <2>1, WrappedKeyIs
    <3>. QED
      BY <1>1, <2>1, <3>2, <3>3
  <2>2. CASE s.vault.mode # "Portable"
    <3>1. WrappedLen(s) = 3
      BY <2>2 DEF WrappedLen
    <3>2. i - 5 \in 1..3
      BY <1>1, <3>1
    <3>3. WrappedKey(w, s)[i - 5][1] = "sealed"
      BY <2>2, <3>2, WrappedKeyIs
    <3>. QED
      BY <1>1, <3>3
  <2>. QED
    BY <2>1, <2>2
<1>. QED
  BY <1>1, Positions

\* A sealed cell is in its place.
LEMMA SealedCell ==
  ASSUME NEW w, NEW s \in SaveCall, 6 \in 1..ImageLen(s), Image(w, s)[6][1] = "sealed"
  PROVE  /\ s.vault.mode # "Portable"
         /\ Image(w, s)[6] = <<"sealed", <<Envelope(Wrapping(w, s)), Here, 1>>>>
<1>1. WrappedLen(s) \in {2, 3} /\ s.vault.text \in Nat
  BY SaveCallHas DEF WrappedLen
<1>2. Image(w, s)[5 + 1] = WrappedKey(w, s)[1]
  BY SMTT(30), <1>1, ImageIs
<1>3. Image(w, s)[6] = WrappedKey(w, s)[1]
  BY <1>2
<1>4. s.vault.mode # "Portable"
  BY <1>3, WrappedKeyIs
<1>. QED
  BY <1>3, <1>4, WrappedKeyIs
-----------------------------------------------------------------------------
(* A file that loads *)

\* What decrypts under a key was encrypted under it, with that nonce and header.
LEMMA Decrypts ==
  ASSUME NEW key, NEW nonce, NEW tag, NEW cells, NEW aad,
         NEW v \in decrypt(key, nonce, tag, cells, aad)
  PROVE  /\ tag[1] = "tag"
         /\ tag[2].key = key /\ tag[2].nonce = nonce /\ tag[2].aad = aad
         /\ cells = Ciphertext(tag[2])
         /\ v = tag[2].plain
<1>. DEFINE E == IF tag[1] = "tag" THEN {tag[2]} ELSE {}
<1>1. PICK e \in E : /\ e.key = key /\ e.nonce = nonce /\ e.aad = aad
                    /\ cells = Ciphertext(e) /\ v = e.plain
  BY DEF decrypt
<1>2. tag[1] = "tag" /\ e = tag[2]
  OBVIOUS
<1>. QED
  BY <1>1, <1>2

\* A piece of the file that is a ciphertext is as long, and its cells are in order.
HasPiece(a, b, e) == /\ a \in Nat \ {0} /\ b \in Nat /\ b <= Len(file) /\ a <= b + 1
                     /\ e.size \in Nat
                     /\ SubSeq(file, a, b) = Ciphertext(e)
Piece(a, b, e) == /\ b + 1 - a = e.size
                  /\ \A j \in 1..e.size : file[a + j - 1] = <<"ciphertext", <<e, j>>>>

\* A ciphertext in the file is whole.
LEMMA PieceIs ==
  ASSUME Cells, NEW a, NEW b, NEW e, HasPiece(a, b, e)
  PROVE  Piece(a, b, e)
<1>. USE DEF HasPiece, Piece
<1>. DEFINE S == {file[i] : i \in 1..Len(file)}
            c == Ciphertext(e)
<1>1. \A i \in a..b : file[i] \in S
  BY DEF Cells
<1>2. c = [j \in 1..e.size |-> <<"ciphertext", <<e, j>>>>]
  BY DEF Ciphertext
<1>3. Len(c) = e.size
  <2>1. c = [j \in 1..e.size |-> c[j]]
    BY <1>2
  <2>. HIDE DEF c
  <2>. QED
    BY <2>1, FunctionIsSeq
<1>. HIDE DEF S
<1>4. /\ Len(SubSeq(file, a, b)) = IF a <= b THEN b - a + 1 ELSE 0
      /\ \A i \in 1..b - a + 1 : SubSeq(file, a, b)[i] = file[a + i - 1]
  BY <1>1, SubSeqProperties
<1>5. b + 1 - a = e.size
  BY <1>3, <1>4
<1>6. \A j \in 1..e.size : c[j] = file[a + j - 1]
  BY <1>4, <1>5
<1>. QED
  BY <1>2, <1>5, <1>6

\* A cell that is not a zero comes from a call, out of its image.
LEMMA CellCall ==
  ASSUME Types, Writers, Cells, NEW i \in 1..Len(file), file[i] # Zero
  PROVE  \E w \in Writer : /\ From(w, i) /\ Begun(w) /\ save[w].pass # NoPassword
                           /\ save[w] \in SaveCall
                           /\ i \in 1..ImageLen(save[w])
                           /\ pos[w] <= ImageLen(save[w])
<1>1. PICK w \in Writer : From(w, i)
  BY DEF Cells
<1>2. pos[w] \in Nat /\ pos[w] >= i /\ i \in Nat /\ i > 0
  BY <1>1 DEF From, Types, Cells
<1>3. Begun(w) /\ save[w].pass # NoPassword /\ pos[w] <= Size(w)
  BY <1>2 DEF Writers
<1>4. save[w] \in SaveCall /\ Size(w) = ImageLen(save[w]) /\ Size(w) \in Nat
  BY <1>3, SizeIs
<1>. QED
  BY <1>1, <1>2, <1>3, <1>4

\* The length in the header is that of an image's wrapped key, or zero.
LEMMA KeyLenIs ==
  ASSUME Types, Writers, Cells, Len(file) >= 5
  PROVE  \/ KeyLen(file) = 0
         \/ KeyLen(file) \in {2, 3} /\ file[5] = <<"key_len", KeyLen(file)>>
<1>. SUFFICES ASSUME file[5][1] = "key_len"
              PROVE  KeyLen(file) \in {2, 3} /\ file[5] = <<"key_len", KeyLen(file)>>
  BY DEF KeyLen
<1>1. file[5] # Zero
  <2>1. Zero[1] = "zero"
    BY DEF Zero
  <2>. QED
    BY <2>1
<1>2. 5 \in 1..Len(file)
  BY DEF Cells
<1>3. PICK w \in Writer : From(w, 5) /\ save[w] \in SaveCall
  BY <1>1, <1>2, CellCall
<1>4. save[w].vault.text \in Nat
  BY <1>3, SaveCallHas
<1>5. file[5] = <<"key_len", WrappedLen(save[w])>>
  BY <1>3, <1>4, ImageIs DEF From
<1>6. KeyLen(file) = WrappedLen(save[w])
  BY <1>5 DEF KeyLen
<1>. QED
  BY <1>5, <1>6 DEF WrappedLen
\* The content that decrypts is the one of the call the last cell is from, and the
\* cells outside the wrapped key are of that call's image.
ContentOf(w, k, v) ==
  /\ Begun(w) /\ save[w].pass # NoPassword /\ save[w] \in SaveCall
  /\ pos[w] = ImageLen(save[w])
  /\ Len(file) = ImageLen(save[w])
  /\ KeyLen(file) = WrappedLen(save[w])
  /\ k = save[w].key /\ v = save[w].vault
  /\ Mode(file) = save[w].vault.mode
  /\ file[3] = Salt(w)
  /\ \A i \in 1..Len(file) :
       i = 4 \/ i \in 6..5 + WrappedLen(save[w]) \/ file[i] = Image(w, save[w])[i]

\* Content that decrypts comes from one save.
LEMMA ContentCall ==
  ASSUME Types, Writers, Cells, Parses(file), NEW k, NEW v \in Decrypted(file, k)
  PROVE  \E w \in Writer : ContentOf(w, k, v)
<1>. DEFINE n == Len(file)
            A == AfterKey(file)
            q == KeyLen(file)
<1>1. /\ n \in Nat /\ q \in {0, 2, 3} /\ A = 5 + q /\ n >= A + 3 /\ n >= 5
      /\ q # 0 => file[5] = <<"key_len", q>>
  <2>1. n \in Nat /\ n >= 5
    BY DEF Cells, Parses, HeaderLen
  <2>2. q \in {0, 2, 3} /\ (q # 0 => file[5] = <<"key_len", q>>)
    BY <2>1, KeyLenIs
  <2>. QED
    BY <2>1, <2>2 DEF Parses, AfterKey, HeaderLen
<1>2. /\ file[1] = Prefix
      /\ file[2] = <<"mode", Mode(file)>> /\ Mode(file) \in VaultMode
  BY DEF Parses, Mode
<1>. DEFINE e == file[n][2]
<1>3. /\ file[n][1] = "tag"
      /\ e.key = derive_subkey(k) /\ e.nonce = file[A + 2]
      /\ e.aad = AAD(Mode(file), file[3], file[A + 1])
      /\ SubSeq(file, A + 3, n - 1) = Ciphertext(e)
      /\ v = e.plain
  <2>. DEFINE key == derive_subkey(k)
              nonce == file[A + 2]
              tag == file[n]
              cells == SubSeq(file, A + 3, n - 1)
              aad == AAD(Mode(file), file[3], file[A + 1])
  <2>1. v \in decrypt(key, nonce, tag, cells, aad)
    BY DEF Decrypted
  <2>. HIDE DEF key, nonce, tag, cells, aad
  <2>2. /\ tag[1] = "tag"
        /\ tag[2].key = key /\ tag[2].nonce = nonce /\ tag[2].aad = aad
        /\ cells = Ciphertext(tag[2])
        /\ v = tag[2].plain
    BY <2>1, Decrypts
  <2>. QED
    BY <2>2 DEF key, nonce, tag, cells, aad
<1>. HIDE DEF n, A, q, e
<1>4. n \in 1..Len(file) /\ file[n] # Zero
  <2>1. Zero[1] = "zero"
    BY DEF Zero
  <2>. QED
    BY <1>1, <1>3, <2>1 DEF n
<1>5. PICK w \in Writer : /\ From(w, n) /\ Begun(w) /\ save[w].pass # NoPassword
                         /\ save[w] \in SaveCall
                         /\ n \in 1..ImageLen(save[w])
                         /\ pos[w] <= ImageLen(save[w])
  BY <1>4, CellCall
<1>. DEFINE s == save[w]
            C == Content(w, s)
            K == WrappedLen(s)
            T == s.vault.text
<1>6. file[n] = Image(w, s)[n] /\ pos[w] \in Nat /\ pos[w] >= n
  BY <1>5 DEF From, Types
<1>7. n = ImageLen(s) /\ file[n] = Tag(C)
  <2>1. \/ n = ImageLen(s) /\ file[n] = Tag(C)
        \/ n = 7
    BY <1>3, <1>5, <1>6, TagCell
  <2>. QED
    BY <1>1, <2>1
<1>8. e = C
  BY <1>7 DEF e, Tag
<1>9. T \in Nat /\ K \in {2, 3} /\ n = 8 + K + T
  BY <1>5, <1>7, SaveCallHas DEF WrappedLen, ImageLen
<1>10. k = s.key /\ v = s.vault /\ file[A + 2] = ContentNonce(w)
  <2>1. derive_subkey(k) = derive_subkey(s.key)
    BY <1>3, <1>8 DEF Content
  <2>2. k = s.key
    BY <2>1 DEF derive_subkey
  <2>. QED
    BY <1>3, <1>8, <2>2 DEF Content
<1>11. Mode(file) = s.vault.mode /\ file[3] = Salt(w) /\ file[A + 1] = SeqNum(s)
  <2>1. AAD(Mode(file), file[3], file[A + 1]) = AAD(s.vault.mode, Salt(w), SeqNum(s))
    BY <1>3, <1>8 DEF Content
  <2>. QED
    BY <2>1 DEF AAD
<1>12. C.size = T
  BY DEF Content
<1>13. /\ n - (A + 3) = T
       /\ \A j \in 1..T : file[A + 3 + j - 1] = <<"ciphertext", <<C, j>>>>
  <2>1. /\ A + 3 \in Nat /\ n - 1 \in Nat /\ A + 3 > 0 /\ n - 1 <= Len(file)
        /\ A + 3 <= (n - 1) + 1 /\ (n - 1) + 1 - (A + 3) = n - (A + 3)
    BY <1>1 DEF n
  <2>2. C.size \in Nat /\ SubSeq(file, A + 3, n - 1) = Ciphertext(C)
    BY <1>3, <1>8, <1>9, <1>12
  <2>. DEFINE a == A + 3
              b == n - 1
  <2>3. HasPiece(a, b, C) /\ b + 1 - a = n - (A + 3)
    BY <2>1, <2>2 DEF HasPiece
  <2>. HIDE DEF a, b, C
  <2>4. Piece(a, b, C)
    BY <2>3, PieceIs
  <2>. QED
    BY <1>12, <2>3, <2>4 DEF a, Piece
<1>14. q = K /\ A = 5 + K
  BY <1>1, <1>9, <1>13
<1>15. /\ file[1] = Image(w, s)[1] /\ file[2] = Image(w, s)[2]
       /\ file[3] = Image(w, s)[3] /\ file[5] = Image(w, s)[5]
  <2>1. /\ Image(w, s)[1] = Prefix
        /\ Image(w, s)[2] = <<"mode", s.vault.mode>>
        /\ Image(w, s)[3] = Salt(w)
        /\ Image(w, s)[5] = <<"key_len", K>>
    BY <1>9, ImageIs
  <2>2. file[5] = <<"key_len", K>>
    BY <1>1, <1>9, <1>14
  <2>. QED
    BY <1>2, <1>11, <2>1, <2>2
<1>16. file[6 + K] = Image(w, s)[6 + K] /\ file[7 + K] = Image(w, s)[7 + K]
  <2>1. Image(w, s)[6 + K] = SeqNum(s) /\ Image(w, s)[7 + K] = ContentNonce(w)
    BY <1>9, ImageIs
  <2>2. A + 1 = 6 + K /\ A + 2 = 7 + K
    BY <1>9, <1>14
  <2>. QED
    BY <1>10, <1>11, <2>1, <2>2
<1>17. \A j \in 1..T : file[7 + K + j] = Image(w, s)[7 + K + j]
  <2>1. \A j \in 1..T : Image(w, s)[7 + K + j] = <<"ciphertext", <<C, j>>>>
    BY <1>9, ImageIs
  <2>2. \A j \in 1..T : A + 3 + j - 1 = 7 + K + j
    BY <1>9, <1>14
  <2>. QED
    BY <1>13, <2>1, <2>2
<1>18. \A i \in 1..n : i = 4 \/ i \in 6..5 + K \/ file[i] = Image(w, s)[i]
  <2>. SUFFICES ASSUME NEW i \in 1..n, i # 4, i \notin 6..5 + K
                PROVE  file[i] = Image(w, s)[i]
    OBVIOUS
  <2>. HIDE DEF K, T, s
  <2>1. CASE i \in 1..5
    <3>1. i = 1 \/ i = 2 \/ i = 3 \/ i = 5
      BY <2>1
    <3>. QED
      BY <1>15, <3>1
  <2>2. CASE i = 6 + K \/ i = 7 + K
    BY <1>16, <2>2
  <2>3. CASE i \in 8 + K..7 + K + T
    <3>1. i - (7 + K) \in 1..T /\ 7 + K + (i - (7 + K)) = i
      BY <1>9, <2>3
    <3>. QED
      BY <1>17, <3>1
  <2>4. CASE i = n
    BY <1>6, <2>4
  <2>. QED
    BY <1>9, <2>1, <2>2, <2>3, <2>4
<1>19. pos[w] = ImageLen(s)
  BY <1>5, <1>6, <1>7, <1>9
<1>. QED
  BY <1>5, <1>7, <1>10, <1>11, <1>14, <1>18, <1>19 DEF ContentOf, n, q
\* The wrapped key of the file, if it is long enough.
LEMMA WrappedPartIs ==
  ASSUME Cells, KeyLen(file) \in {2, 3}, 5 + KeyLen(file) <= Len(file)
  PROVE  /\ Len(WrappedPart(file)) = KeyLen(file)
         /\ \A i \in 1..KeyLen(file) : WrappedPart(file)[i] = file[5 + i]
<1>. DEFINE S == {file[i] : i \in 1..Len(file)}
            b == 5 + KeyLen(file)
<1>1. WrappedPart(file) = SubSeq(file, 6, b) /\ b \in Int /\ 6 \in Int /\ 6 <= b
  BY DEF WrappedPart, HeaderLen
<1>2. \A i \in 6..b : file[i] \in S
  BY DEF Cells
<1>. HIDE DEF S, b
<1>3. /\ Len(SubSeq(file, 6, b)) = b - 6 + 1
      /\ \A i \in 1..b - 6 + 1 : SubSeq(file, 6, b)[i] = file[6 + i - 1]
  BY <1>1, <1>2, SubSeqProperties
<1>4. b - 6 + 1 = KeyLen(file)
  BY DEF b
<1>. QED
  BY <1>1, <1>3, <1>4

\* An envelope of one cell and its tag.
LEMMA ShortEnvelope ==
  ASSUME NEW w, NEW s
  PROVE  /\ Len(Envelope(Wrapping(w, s))) = 2
         /\ Envelope(Wrapping(w, s))[1] = <<"ciphertext", <<Wrapping(w, s), 1>>>>
         /\ Envelope(Wrapping(w, s))[2] = Tag(Wrapping(w, s))
<1>. DEFINE E == Envelope(Wrapping(w, s))
<1>1. Wrapping(w, s).size = 1
  BY DEF Wrapping
<1>2. E = [i \in 1..2 |-> IF i <= 1 THEN <<"ciphertext", <<Wrapping(w, s), i>>>>
                                  ELSE Tag(Wrapping(w, s))]
  BY <1>1, EnvelopeIs
<1>3. E[1] = <<"ciphertext", <<Wrapping(w, s), 1>>>> /\ E[2] = Tag(Wrapping(w, s))
  BY <1>2
<1>4. E = [i \in 1..2 |-> E[i]]
  BY <1>2
<1>. HIDE DEF E
<1>5. Len(E) = 2
  BY <1>4, FunctionIsSeq
<1>. QED
  BY <1>3, <1>5 DEF E

\* What the TPM unseals it sealed.
LEMMA UnsealedIs ==
  ASSUME NEW cells, NEW device, NEW b \in unseal_key(cells, device)
  PROVE  /\ \A i \in 1..3 : cells[i] = <<"sealed", <<b, device, i>>>>
<1>1. cells = seal_key(b, device)
  BY DEF unseal_key
<1>. QED
  BY <1>1 DEF seal_key, SealedLen

\* The key that unwraps is of the same call, under its password and on its device,
\* and so are its cells.
LEMMA WrapCall ==
  ASSUME Types, Writers, Cells, Parses(file), NEW pass, NEW device,
         NEW k \in Unwrap(file, pass, device),
         NEW w \in Writer, NEW k1, NEW v1, ContentOf(w, k1, v1)
  PROVE  /\ pass = save[w].pass
         /\ save[w].vault.mode = "Portable" \/ device = Here
         /\ file[4] = Image(w, save[w])[4]
         /\ \A i \in 6..5 + WrappedLen(save[w]) : file[i] = Image(w, save[w])[i]
<1>. DEFINE s == save[w]
            K == WrappedLen(s)
            W == WrappedPart(file)
<1>1. /\ s \in SaveCall /\ KeyLen(file) = K /\ Mode(file) = s.vault.mode
      /\ file[3] = Salt(w) /\ Len(file) = ImageLen(s)
  BY DEF ContentOf
<1>2. s.vault.text \in Nat \ {0} /\ K \in {2, 3} /\ Len(file) \in Nat /\ Len(file) >= 9 + K
  BY <1>1, SaveCallHas DEF WrappedLen, ImageLen
<1>3. Len(W) = K /\ \A i \in 1..K : W[i] = file[5 + i]
  BY <1>1, <1>2, WrappedPartIs
<1>4. /\ Image(w, s)[4] = WrapperNonce(w)
      /\ \A i \in 1..K : Image(w, s)[5 + i] = WrappedKey(w, s)[i]
  BY <1>2, ImageIs
<1>5. PICK b \in EncryptedKey(file, device) \ {<<>>} :
        k \in decrypt(derive_key(pass, file[3]), file[4], b[Len(b)],
                     SubSeq(b, 1, Len(b) - 1), Label(Mode(file)))
  BY DEF Unwrap
<1>. DEFINE e == b[Len(b)][2]
<1>6. /\ b[Len(b)][1] = "tag"
      /\ e.key = derive_key(pass, Salt(w)) /\ e.nonce = file[4]
      /\ SubSeq(b, 1, Len(b) - 1) = Ciphertext(e)
  <2>. DEFINE key == derive_key(pass, file[3])
              nonce == file[4]
              tag == b[Len(b)]
              cells == SubSeq(b, 1, Len(b) - 1)
              aad == Label(Mode(file))
  <2>1. k \in decrypt(key, nonce, tag, cells, aad)
    BY <1>5
  <2>. HIDE DEF key, nonce, tag, cells, aad
  <2>2. /\ tag[1] = "tag"
        /\ tag[2].key = key /\ tag[2].nonce = nonce
        /\ cells = Ciphertext(tag[2])
    BY <2>1, Decrypts
  <2>. QED
    BY <1>1, <2>2 DEF key, nonce, tag, cells
<1>. HIDE DEF s, K, W, e
\* Who wrapped: the salt says it.
<1>7. ASSUME NEW x \in Writer, e = Wrapping(x, save[x])
      PROVE  x = w /\ pass = s.pass /\ e = Wrapping(w, s) /\ file[4] = Image(w, s)[4]
  <2>1. derive_key(pass, Salt(w)) = derive_key(save[x].pass, Salt(x))
    BY <1>6, <1>7 DEF Wrapping
  <2>2. Salt(w) = Salt(x) /\ pass = save[x].pass
    BY <2>1 DEF derive_key
  <2>3. x = w
    BY <2>2 DEF Salt
  <2>4. e.nonce = WrapperNonce(w)
    BY <1>7, <2>3 DEF Wrapping
  <2>. QED
    BY <1>4, <1>6, <1>7, <2>2, <2>3, <2>4 DEF s
<1>8. CASE s.vault.mode = "Portable"
  <2>1. K = 2 /\ b = W
    BY <1>1, <1>5, <1>8 DEF EncryptedKey, K, W, WrappedLen, s
  <2>2. Len(b) = 2 /\ b[1] = file[6] /\ b[2] = file[7]
    BY <1>3, <2>1
  <2>3. 7 \in 1..Len(file) /\ file[7] # Zero
    <3>1. Zero[1] = "zero"
      BY DEF Zero
    <3>. QED
      BY <1>2, <1>6, <2>2, <3>1
  <2>4. PICK x \in Writer : /\ From(x, 7) /\ save[x] \in SaveCall
                           /\ 7 \in 1..ImageLen(save[x])
    BY <2>3, CellCall
  <2>5. 7 # ImageLen(save[x])
    BY <2>4, SaveCallHas DEF ImageLen, WrappedLen
  <2>6. file[7] = Tag(Wrapping(x, save[x]))
    BY <1>6, <2>2, <2>4, <2>5, TagCell DEF From
  <2>7. e = Wrapping(x, save[x])
    BY <2>2, <2>6 DEF e, Tag
  <2>8. x = w /\ pass = s.pass /\ e = Wrapping(w, s) /\ file[4] = Image(w, s)[4]
    BY <1>7, <2>7
  <2>9. file[6] = <<"ciphertext", <<Wrapping(w, s), 1>>>>
    <3>1. SubSeq(b, 1, 1) = Ciphertext(e)
      BY <1>6, <2>2
    <3>2. SubSeq(b, 1, 1)[1] = b[1]
      <4>1. \A i \in 1..1 : b[i] \in {b[1]}
        OBVIOUS
      <4>. QED
        BY <4>1, SubSeqProperties
    <3>3. Ciphertext(e)[1] = <<"ciphertext", <<e, 1>>>>
      <4>1. e.size = 1
        BY <2>8 DEF Wrapping
      <4>. QED
        BY <4>1 DEF Ciphertext
    <3>. QED
      BY <2>2, <2>8, <3>1, <3>2, <3>3
  <2>10. file[6] = Image(w, s)[6] /\ file[7] = Image(w, s)[7]
    <3>1. Image(w, s)[5 + 1] = WrappedKey(w, s)[1] /\ Image(w, s)[5 + 2] = WrappedKey(w, s)[2]
      BY <1>4, <2>1
    <3>2. /\ WrappedKey(w, s)[1] = <<"ciphertext", <<Wrapping(w, s), 1>>>>
          /\ WrappedKey(w, s)[2] = Tag(Wrapping(w, s))
      BY <1>8, WrappedKeyIs
    <3>3. file[7] = Tag(Wrapping(w, s))
      BY <2>6, <2>8 DEF s
    <3>. QED
      BY <2>9, <3>1, <3>2, <3>3
  <2>11. \A i \in 6..5 + K : i = 6 \/ i = 7
    BY <2>1
  <2>. QED
    BY <1>8, <2>8, <2>10, <2>11 DEF s, K
<1>9. CASE s.vault.mode # "Portable"
  <2>1. K = 3 /\ b \in unseal_key(W, device)
    BY <1>1, <1>5, <1>9 DEF EncryptedKey, K, W, WrappedLen, s
  <2>2. \A i \in 1..3 : file[5 + i] = <<"sealed", <<b, device, i>>>>
    BY <1>3, <2>1, UnsealedIs
  <2>3. file[6] = <<"sealed", <<b, device, 1>>>>
    <3>1. file[5 + 1] = <<"sealed", <<b, device, 1>>>>
      BY <2>2
    <3>. QED
      BY <3>1
  <2>4. 6 \in 1..Len(file) /\ file[6] # Zero
    <3>1. Zero[1] = "zero" /\ file[6][1] = "sealed"
      BY <2>3 DEF Zero
    <3>. QED
      BY <1>2, <3>1
  <2>5. PICK x \in Writer : /\ From(x, 6) /\ save[x] \in SaveCall
                           /\ 6 \in 1..ImageLen(save[x])
    BY <2>4, CellCall
  <2>6. file[6] = <<"sealed", <<Envelope(Wrapping(x, save[x])), Here, 1>>>>
    BY <2>3, <2>5, SealedCell DEF From
  <2>7. b = Envelope(Wrapping(x, save[x])) /\ device = Here
    BY <2>3, <2>6
  <2>8. Len(b) = 2 /\ b[2] = Tag(Wrapping(x, save[x]))
    BY <2>7, ShortEnvelope
  <2>9. e = Wrapping(x, save[x])
    BY <2>8 DEF e, Tag
  <2>10. x = w /\ pass = s.pass /\ file[4] = Image(w, s)[4]
    BY <1>7, <2>9
  <2>11. b = Envelope(Wrapping(w, s))
    BY <2>7, <2>10 DEF s
  <2>12. \A i \in 1..3 : file[5 + i] = Image(w, s)[5 + i]
    <3>1. \A i \in 1..3 : WrappedKey(w, s)[i] = <<"sealed", <<Envelope(Wrapping(w, s)), Here, i>>>>
      BY <1>9, WrappedKeyIs
    <3>. QED
      BY <1>4, <2>1, <2>2, <2>7, <2>11, <3>1
  <2>13. \A i \in 6..5 + K : i - 5 \in 1..3 /\ i = 5 + (i - 5)
    BY <2>1
  <2>14. \A i \in 6..5 + K : file[i] = Image(w, s)[i]
    BY <2>12, <2>13
  <2>. QED
    BY <2>7, <2>10, <2>14 DEF s, K
<1>. QED
  BY <1>8, <1>9

\* What a load returns.
LEMMA LoadGives ==
  ASSUME NEW f, NEW pass, NEW device, NEW r \in Load(f, pass, device)
  PROVE  /\ Parses(f)
         /\ \E k \in Unwrap(f, pass, device) : \E v \in Decrypted(f, k) :
              r = [vault |-> v, key |-> k]
  BY DEF Load

\* A file that loads is one image, cell for cell.
LEMMA LoadCall ==
  ASSUME Types, Writers, Cells, NEW pass, NEW device, NEW r \in Load(file, pass, device)
  PROVE  \E w \in Writer :
           /\ Done(w)
           /\ file = Image(w, save[w])
           /\ r = [vault |-> save[w].vault, key |-> save[w].key]
           /\ pass = save[w].pass
           /\ save[w].vault.mode = "Portable" \/ device = Here
<1>1. Parses(file)
  BY LoadGives
<1>2. PICK k, v : /\ k \in Unwrap(file, pass, device) /\ v \in Decrypted(file, k)
                  /\ r = [vault |-> v, key |-> k]
  BY LoadGives
<1>3. PICK w \in Writer : ContentOf(w, k, v)
  BY <1>1, <1>2, ContentCall
<1>4. /\ pass = save[w].pass
      /\ save[w].vault.mode = "Portable" \/ device = Here
      /\ file[4] = Image(w, save[w])[4]
      /\ \A i \in 6..5 + WrappedLen(save[w]) : file[i] = Image(w, save[w])[i]
  BY <1>1, <1>2, <1>3, WrapCall
<1>5. \A i \in 1..Len(file) : file[i] = Image(w, save[w])[i]
  BY <1>3, <1>4 DEF ContentOf
<1>6. save[w] \in SaveCall /\ Len(file) = ImageLen(save[w])
  BY <1>3 DEF ContentOf
<1>7. Image(w, save[w]) = [i \in 1..Len(file) |-> Image(w, save[w])[i]]
  <2>1. save[w].vault.text \in Nat
    BY <1>6, SaveCallHas
  <2>2. Image(w, save[w]) = [i \in 1..ImageLen(save[w]) |-> Image(w, save[w])[i]]
    BY <2>1, ImageIs
  <2>. QED
    BY <1>6, <2>2
<1>8. file = Image(w, save[w])
  BY <1>5, <1>7 DEF Cells
<1>9. Done(w)
  BY <1>3, SizeIs DEF ContentOf, Done
<1>. QED
  BY <1>2, <1>3, <1>4, <1>8, <1>9 DEF ContentOf

\* A file that loads was saved so, by the invariant.
LEMMA SavedFromInvariant == IInv => LoadedWasSaved
  BY LoadCall DEF IInv, LoadedWasSaved

\* Whatever load_vault accepts is the complete image of one call, opened with its
\* password and on its device: for any number of calls writing to the file at
\* once or left half-written.
THEOREM OnlySavedLoads == Spec => []LoadedWasSaved
<1>. QED
  BY FormatInvariance, SavedFromInvariant, PTL

-----------------------------------------------------------------------------
(* What a finished call leaves *)

\* The last cell of an image is in no other call's image.
LEMMA LastCellIsOwn ==
  ASSUME NEW w, NEW s \in SaveCall, NEW x, NEW t \in SaveCall, NEW i \in 1..ImageLen(t),
         Image(x, t)[i] = Image(w, s)[ImageLen(s)]
  PROVE  x = w
<1>1. Image(w, s)[ImageLen(s)] = Tag(Content(w, s))
  BY SaveCallHas, ImageIs
<1>2. Tag(Content(w, s))[1] = "tag" /\ Tag(Content(w, s))[2] = Content(w, s)
  BY DEF Tag
<1>3. Image(x, t)[i] = Tag(Content(x, t)) \/ Image(x, t)[i] = Tag(Wrapping(x, t))
  BY <1>1, <1>2, TagCell
<1>4. Content(w, s).nonce = ContentNonce(w)
  BY DEF Content
<1>5. CASE Image(x, t)[i] = Tag(Content(x, t))
  <2>1. Content(x, t) = Content(w, s)
    BY <1>1, <1>5 DEF Tag
  <2>2. Content(x, t).nonce = ContentNonce(x)
    BY DEF Content
  <2>3. ContentNonce(x) = ContentNonce(w)
    BY <1>4, <2>1, <2>2
  <2>. QED
    BY <2>3 DEF ContentNonce
<1>6. CASE Image(x, t)[i] = Tag(Wrapping(x, t))
  <2>1. Wrapping(x, t) = Content(w, s)
    BY <1>1, <1>6 DEF Tag
  <2>2. Wrapping(x, t).nonce = WrapperNonce(x)
    BY DEF Wrapping
  <2>3. WrapperNonce(x) = ContentNonce(w)
    BY <1>4, <2>1, <2>2
  <2>4. WrapperNonce(x)[1] = "wrapper_nonce" /\ ContentNonce(w)[1] = "content_nonce"
    BY DEF WrapperNonce, ContentNonce
  <2>. QED
    BY <2>3, <2>4
<1>. QED
  BY <1>3, <1>5, <1>6

\* The cell that ends a save leaves a file that loads only if it is that save.
LEMMA EndStep ==
  ASSUME IInv, LoadedWasSaved', NEW w \in Writer, Write(w), Done(w)',
         NEW pass \in Password, NEW device \in Device, Load(file', pass, device) # {}
  PROVE  file' = Image(w, save[w])
<1>. DEFINE p == pos[w]
            n == Len(file)
            m == IF p + 1 > n THEN p + 1 ELSE n
            c == Image(w, save[w])[p + 1]
<1>1. /\ Begun(w) /\ save' = save /\ pos' = [pos EXCEPT ![w] = p + 1]
      /\ file' = [j \in 1..m |-> IF j = p + 1 THEN c ELSE IF j <= n THEN file[j] ELSE Zero]
  BY DEF Write, Overwritten
<1>2. p \in Nat /\ n \in Nat /\ m \in Nat /\ p + 1 \in 1..m
  BY DEF IInv, Types, Cells
<1>3. p + 1 = ImageLen(save[w]) /\ save[w] \in SaveCall
  <2>1. pos'[w] = p + 1
    BY <1>1 DEF IInv, Types
  <2>. QED
    BY <1>1, <2>1, SizeIs DEF Done, Size, IInv
<1>4. file'[p + 1] = c /\ Len(file') = m
  <2>1. file' = [j \in 1..m |-> file'[j]]
    BY <1>1
  <2>2. file'[p + 1] = c
    BY <1>1, <1>2
  <2>. HIDE DEF m
  <2>. QED
    BY <2>1, <2>2, <1>2, FunctionIsSeq
<1>5. PICK x \in Writer : Done(x)' /\ file' = Image(x, save[x])
  BY <1>1 DEF LoadedWasSaved
<1>6. save[x] \in SaveCall /\ m = ImageLen(save[x])
  <2>1. Begun(x)
    BY <1>1, <1>5 DEF Done, Begun
  <2>2. save[x] \in SaveCall
    BY <2>1, SizeIs DEF IInv
  <2>3. Len(Image(x, save[x])) = ImageLen(save[x])
    BY <2>2, SaveCallHas, ImageIs
  <2>. QED
    BY <1>4, <1>5, <2>2, <2>3
<1>7. x = w
  <2>1. p + 1 \in 1..ImageLen(save[x])
    BY <1>2, <1>6
  <2>2. Image(x, save[x])[p + 1] = Image(w, save[w])[ImageLen(save[w])]
    BY <1>3, <1>4, <1>5
  <2>. QED
    BY <1>3, <1>6, <2>1, <2>2, LastCellIsOwn
<1>. QED
  BY <1>5, <1>7

\* A save_vault ends with its own image in the file, or with a file that nothing
\* loads from.
THEOREM EndsInItsImageHolds == Spec => EndsInItsImage
<1>. DEFINE A == \A w \in Writer : pos'[w] > pos[w] /\ Done(w)' =>
                   \/ file' = Image(w, save[w])
                   \/ \A pass \in Password, device \in Device :
                        Load(file', pass, device) = {}
<1>1. IInv /\ LoadedWasSaved' /\ [Next]_vars => [A]_vars
  <2>. SUFFICES ASSUME IInv, LoadedWasSaved', Next, NEW w \in Writer, pos'[w] > pos[w],
                       Done(w)', NEW pass \in Password, NEW device \in Device,
                       Load(file', pass, device) # {}
                PROVE  file' = Image(w, save[w])
    OBVIOUS
  <2>1. pos[w] \in Nat
    BY DEF IInv, Types
  <2>2. ASSUME NEW x \in Writer, Write(x) PROVE x = w
    <3>1. pos' = [pos EXCEPT ![x] = @ + 1] /\ pos \in [Writer -> Nat]
      BY <2>2 DEF Write, IInv, Types
    <3>. QED
      BY <2>1, <3>1
  <2>3. ASSUME NEW x \in Writer, NEW s \in SaveCall, Create(x, s) PROVE FALSE
    BY <2>1, <2>3 DEF Create
  <2>4. Write(w)
    BY <2>2, <2>3 DEF Next
  <2>. QED
    BY <2>4, EndStep
<1>2. IInv => LoadedWasSaved
  BY SavedFromInvariant
<1>. QED
  BY <1>1, <1>2, FormatInvariance, PTL DEF EndsInItsImage, Spec
-----------------------------------------------------------------------------
(* What was saved loads *)

\* What is encrypted decrypts.
LEMMA EncryptedDecrypts ==
  ASSUME NEW e
  PROVE  e.plain \in decrypt(e.key, e.nonce, Tag(e), Ciphertext(e), e.aad)
<1>1. Tag(e)[1] = "tag" /\ Tag(e)[2] = e
  BY DEF Tag
<1>. QED
  BY <1>1 DEF decrypt

\* The first cells of a file that are a ciphertext, as one piece.
LEMMA PieceOf ==
  ASSUME NEW f, NEW a \in Nat, NEW b \in Nat, a <= b + 1, NEW e, e.size = b + 1 - a,
         \A j \in 1..e.size : f[a + j - 1] = <<"ciphertext", <<e, j>>>>
  PROVE  SubSeq(f, a, b) = Ciphertext(e)
<1>. DEFINE S == {f[i] : i \in a..b}
            p == SubSeq(f, a, b)
<1>1. \A i \in a..b : f[i] \in S
  OBVIOUS
<1>. HIDE DEF S
<1>2. /\ p \in Seq(S) /\ Len(p) = IF a <= b THEN b - a + 1 ELSE 0
      /\ \A i \in 1..b - a + 1 : p[i] = f[a + i - 1]
  BY <1>1, SubSeqProperties
<1>3. Len(p) = e.size /\ b - a + 1 = e.size
  BY <1>2
<1>. HIDE DEF p
<1>4. p \in [1..e.size -> S]
  BY <1>2, <1>3, LenProperties
<1>5. \A j \in 1..e.size : p[j] = <<"ciphertext", <<e, j>>>>
  BY <1>2, <1>3
<1>. QED
  BY <1>4, <1>5 DEF Ciphertext, p

\* An image parses,
LEMMA ImageParses ==
  ASSUME NEW w, NEW s \in SaveCall
  PROVE  /\ Parses(Image(w, s)) /\ Mode(Image(w, s)) = s.vault.mode
         /\ KeyLen(Image(w, s)) = WrappedLen(s)
         /\ AfterKey(Image(w, s)) = 5 + WrappedLen(s)
<1>. DEFINE f == Image(w, s)
            K == WrappedLen(s)
<1>1. s.vault.text \in Nat \ {0} /\ s.vault.mode \in VaultMode
  BY SaveCallHas
<1>2. /\ Len(f) = ImageLen(s) /\ f[1] = Prefix /\ f[2] = <<"mode", s.vault.mode>>
      /\ f[5] = <<"key_len", K>>
  BY <1>1, ImageIs
<1>. HIDE DEF f
<1>3. Mode(f) = s.vault.mode /\ KeyLen(f) = K
  BY <1>2 DEF Mode, KeyLen
<1>4. AfterKey(f) = 5 + K
  BY <1>3 DEF AfterKey, HeaderLen
<1>5. Len(f) >= AfterKey(f) + 3 /\ Len(f) >= 5
  BY <1>1, <1>2, <1>4 DEF ImageLen, WrappedLen
<1>6. Parses(f)
  BY <1>1, <1>2, <1>5 DEF Parses, HeaderLen
<1>. QED
  BY <1>3, <1>4, <1>6 DEF f

\* decrypts with its key,
LEMMA ImageDecrypts ==
  ASSUME NEW w, NEW s \in SaveCall
  PROVE  s.vault \in Decrypted(Image(w, s), s.key)
<1>. DEFINE f == Image(w, s)
            K == WrappedLen(s)
            T == s.vault.text
            C == Content(w, s)
<1>1. T \in Nat \ {0} /\ K \in {2, 3} /\ ImageLen(s) = 8 + K + T
  BY SaveCallHas DEF WrappedLen, ImageLen
<1>2. /\ Len(f) = 8 + K + T /\ f[3] = Salt(w)
      /\ f[6 + K] = SeqNum(s) /\ f[7 + K] = ContentNonce(w)
      /\ \A i \in 1..T : f[7 + K + i] = <<"ciphertext", <<C, i>>>>
      /\ f[8 + K + T] = Tag(C)
  <2>1. T \in Nat
    BY <1>1
  <2>2. /\ Len(f) = ImageLen(s) /\ f[3] = Salt(w)
        /\ f[6 + K] = SeqNum(s) /\ f[7 + K] = ContentNonce(w)
        /\ f[ImageLen(s)] = Tag(C)
    BY <2>1, ImageIs
  <2>3. \A i \in 1..T : f[7 + K + i] = <<"ciphertext", <<C, i>>>>
    BY <2>1, ImageIs
  <2>. HIDE DEF f, K, T, C
  <2>. QED
    BY <1>1, <2>2, <2>3
<1>3. Mode(f) = s.vault.mode /\ AfterKey(f) = 5 + K
  BY ImageParses
<1>4. /\ C.key = derive_subkey(s.key) /\ C.nonce = ContentNonce(w) /\ C.plain = s.vault
      /\ C.aad = AAD(s.vault.mode, Salt(w), SeqNum(s)) /\ C.size = T
  BY DEF Content
<1>. HIDE DEF f, K, T, C
<1>5. SubSeq(f, 8 + K, 7 + K + T) = Ciphertext(C)
  <2>. DEFINE a == 8 + K
              b == 7 + K + T
  <2>1. a \in Nat /\ b \in Nat /\ a <= b + 1 /\ C.size = b + 1 - a
    BY <1>1, <1>4
  <2>2. \A j \in 1..C.size : f[a + j - 1] = <<"ciphertext", <<C, j>>>>
    <3>1. \A j \in 1..T : a + j - 1 = 7 + K + j
      BY <1>1
    <3>. QED
      BY <1>2, <1>4, <3>1
  <2>. HIDE DEF a, b
  <2>3. SubSeq(f, a, b) = Ciphertext(C)
    BY <2>1, <2>2, PieceOf
  <2>. QED
    BY <2>3 DEF a, b
<1>6. /\ AfterKey(f) + 2 = 7 + K /\ AfterKey(f) + 3 = 8 + K /\ AfterKey(f) + 1 = 6 + K
      /\ Len(f) - 1 = 7 + K + T
  BY <1>1, <1>2, <1>3
<1>7. Decrypted(f, s.key) = decrypt(C.key, C.nonce, Tag(C), Ciphertext(C), C.aad)
  BY <1>2, <1>3, <1>4, <1>5, <1>6 DEF Decrypted
<1>. QED
  BY <1>4, <1>7, EncryptedDecrypts DEF f

\* gives its key for its password on its device,
LEMMA ImageUnwraps ==
  ASSUME NEW w, NEW s \in SaveCall, NEW device, s.vault.mode = "Portable" \/ device = Here
  PROVE  s.key \in Unwrap(Image(w, s), s.pass, device)
<1>. DEFINE f == Image(w, s)
            K == WrappedLen(s)
            P == WrappedPart(f)
            W == Wrapping(w, s)
            E == Envelope(W)
<1>1. s.vault.text \in Nat /\ K \in {2, 3}
  BY SaveCallHas DEF WrappedLen
<1>2. /\ f[3] = Salt(w) /\ f[4] = WrapperNonce(w)
      /\ \A i \in 1..K : f[5 + i] = WrappedKey(w, s)[i]
  BY <1>1, ImageIs
<1>3. Mode(f) = s.vault.mode /\ KeyLen(f) = K
  BY ImageParses
<1>4. P = WrappedKey(w, s)
  <2>. DEFINE b == 5 + K
              S == {f[i] : i \in 6..b}
  <2>1. P = SubSeq(f, 6, b) /\ b \in Int /\ 6 \in Int /\ 6 <= b /\ b - 6 + 1 = K
    BY <1>1, <1>3 DEF WrappedPart, HeaderLen
  <2>2. \A i \in 6..b : f[i] \in S
    OBVIOUS
  <2>. HIDE DEF b, S, P, f, K
  <2>3. /\ P \in Seq(S) /\ Len(P) = K
        /\ \A i \in 1..K : P[i] = f[6 + i - 1]
    BY <2>1, <2>2, SubSeqProperties
  <2>4. P \in [1..K -> S]
    BY <2>3, LenProperties
  <2>5. \A i \in 1..K : P[i] = WrappedKey(w, s)[i]
    <3>1. \A i \in 1..K : 6 + i - 1 = 5 + i
      BY <1>1
    <3>. QED
      BY <1>2, <2>3, <3>1
  <2>6. WrappedKey(w, s) = [i \in 1..K |-> WrappedKey(w, s)[i]]
    BY WrappedKeyIs DEF K
  <2>. QED
    BY <2>4, <2>5, <2>6
<1>5. E \in EncryptedKey(f, device)
  <2>1. CASE s.vault.mode = "Portable"
    BY <1>3, <1>4, <2>1 DEF EncryptedKey, WrappedKey
  <2>2. CASE s.vault.mode # "Portable"
    <3>1. P = seal_key(E, Here) /\ device = Here
      BY <1>4, <2>2 DEF WrappedKey
    <3>2. P = [i \in 1..3 |-> <<"sealed", <<E, Here, i>>>>]
      BY <3>1 DEF seal_key, SealedLen
    <3>3. Len(P) = 3 /\ P[1] = <<"sealed", <<E, Here, 1>>>>
      <4>1. P = [i \in 1..3 |-> P[i]] /\ P[1] = <<"sealed", <<E, Here, 1>>>>
        BY <3>2
      <4>. HIDE DEF P
      <4>. QED
        BY <4>1, FunctionIsSeq
    <3>4. 1 \in 1..Len(P) /\ P[1][1] = "sealed" /\ P[1][2][1] = E
      BY <3>3
    <3>. HIDE DEF P, E
    <3>5. E \in unseal_key(P, device)
      BY <3>1, <3>4 DEF unseal_key
    <3>. QED
      BY <1>3, <2>2, <3>5 DEF EncryptedKey, P
  <2>. QED
    BY <2>1, <2>2
<1>6. Len(E) = 2 /\ E[1] = <<"ciphertext", <<W, 1>>>> /\ E[2] = Tag(W)
  BY ShortEnvelope
<1>7. /\ W.key = derive_key(s.pass, Salt(w)) /\ W.nonce = WrapperNonce(w)
      /\ W.aad = Label(s.vault.mode) /\ W.plain = s.key /\ W.size = 1
  BY DEF Wrapping
<1>. HIDE DEF f, P, W, E
<1>8. SubSeq(E, 1, 1) = Ciphertext(W)
  <2>1. \A j \in 1..W.size : E[1 + j - 1] = <<"ciphertext", <<W, j>>>>
    BY <1>6, <1>7
  <2>. DEFINE a == 1
  <2>2. a \in Nat /\ a <= a + 1 /\ W.size = a + 1 - a
    BY <1>7
  <2>3. \A j \in 1..W.size : E[a + j - 1] = <<"ciphertext", <<W, j>>>>
    BY <2>1
  <2>. HIDE DEF a
  <2>4. SubSeq(E, a, a) = Ciphertext(W)
    BY <2>2, <2>3, PieceOf
  <2>. QED
    BY <2>4 DEF a
<1>9. E # <<>>
  BY <1>6, EmptyFile
<1>10. s.key \in decrypt(derive_key(s.pass, f[3]), f[4], E[Len(E)],
                        SubSeq(E, 1, Len(E) - 1), Label(Mode(f)))
  <2>1. E[Len(E)] = Tag(W) /\ SubSeq(E, 1, Len(E) - 1) = Ciphertext(W)
    BY <1>6, <1>8
  <2>2. W.plain \in decrypt(W.key, W.nonce, Tag(W), Ciphertext(W), W.aad)
    BY EncryptedDecrypts
  <2>. QED
    BY <1>2, <1>3, <1>7, <2>1, <2>2
<1>. QED
  BY <1>5, <1>9, <1>10 DEF Unwrap, f

\* and so loads.
LEMMA ImageLoads ==
  ASSUME NEW w, NEW s \in SaveCall, NEW device, s.vault.mode = "Portable" \/ device = Here
  PROVE  [vault |-> s.vault, key |-> s.key] \in Load(Image(w, s), s.pass, device)
<1>. DEFINE r == [vault |-> s.vault, key |-> s.key]
<1>1. Parses(Image(w, s)) /\ Mode(Image(w, s)) = s.vault.mode
  BY ImageParses
<1>2. s.vault \in Decrypted(Image(w, s), s.key) /\ s.key \in Unwrap(Image(w, s), s.pass, device)
  BY ImageDecrypts, ImageUnwraps
<1>3. r.vault.mode = Mode(Image(w, s))
  BY <1>1
<1>. QED
  BY <1>1, <1>2, <1>3 DEF Load

\* A save that nobody disturbed loads, by the invariant.
LEMMA LoadsFromInvariant == IInv => SavedLoads
<1>. SUFFICES ASSUME IInv, NEW w \in Writer, owner = w, Done(w), NEW device \in Device,
                     save[w].vault.mode = "Portable" \/ device = Here
              PROVE  Load(file, save[w].pass, device)
                       = {[vault |-> save[w].vault, key |-> save[w].key]}
  BY DEF SavedLoads
<1>. USE DEF IInv
<1>1. save[w] \in SaveCall /\ pos[w] = ImageLen(save[w])
  BY SizeIs DEF Done
<1>2. file = Image(w, save[w])
  <2>1. Len(file) = pos[w] /\ \A i \in 1..pos[w] : file[i] = Image(w, save[w])[i]
    BY DEF Alone
  <2>2. Image(w, save[w]) = [i \in 1..ImageLen(save[w]) |-> Image(w, save[w])[i]]
    <3>1. save[w].vault.text \in Nat
      BY <1>1, SaveCallHas
    <3>. QED
      BY ZenonT(60), <3>1, ImageIs
  <2>. QED
    BY <1>1, <2>1, <2>2 DEF Cells
<1>3. [vault |-> save[w].vault, key |-> save[w].key] \in Load(file, save[w].pass, device)
  BY <1>1, <1>2, ImageLoads
<1>4. ASSUME NEW r \in Load(file, save[w].pass, device)
      PROVE  r = [vault |-> save[w].vault, key |-> save[w].key]
  <2>1. PICK x \in Writer : /\ Done(x) /\ file = Image(x, save[x])
                           /\ r = [vault |-> save[x].vault, key |-> save[x].key]
    BY <1>4, LoadCall
  <2>2. save[x] \in SaveCall
    BY <2>1, SizeIs DEF Done
  <2>3. Image(x, save[x])[3] = Salt(x) /\ Image(w, save[w])[3] = Salt(w)
    <3>1. save[w].vault.text \in Nat /\ save[x].vault.text \in Nat
      BY <1>1, <2>2, SaveCallHas
    <3>. QED
      BY <3>1, ImageIs
  <2>4. x = w
    BY <1>2, <2>1, <2>3 DEF Salt
  <2>. QED
    BY <2>1, <2>4
<1>. QED
  BY <1>3, <1>4

\* A save_vault that ran to its end alone loads with its password, on its device if
\* it is bound to one, and gives back its vault and key and nothing else.
THEOREM SavesLoad == Spec => []SavedLoads
<1>. QED
  BY FormatInvariance, LoadsFromInvariant, PTL
=============================================================================
