----------------------------- MODULE VaultFormat -----------------------------
(***************************************************************************)
(* The bytes of one vault file (vault/format.rs): what save_vault writes,  *)
(* what load_vault accepts, and what is left when several threads save to  *)
(* the same path through handles of File::create, each at its own offset,  *)
(* or when one of them stops half-way.                                     *)
(*                                                                         *)
(* A file is a sequence of cells.  A cell is one field of the format, or   *)
(* one piece of a field whose length varies (the wrapped key and the       *)
(* content), and is tagged with the field's name.  Magic, version and KDF  *)
(* version never differ between images and are one cell.  Cryptography is  *)
(* ideal: a tag names the encryption it came from, a sealed key its        *)
(* device, and a salt or nonce the call that drew it.                      *)
(***************************************************************************)
EXTENDS Naturals, Sequences

CONSTANTS
  Writer,      \* calls of save_vault, each with its own File::create
  Key,         \* master keys
  Password,
  Device,      \* machines, each with a TPM
  Here,        \* the machine of the calls: the program runs once on a machine
  ModeOf,      \* the mode of the vault a key was drawn for
  MaxSeq,      \* largest sequence number (a bound)
  MaxText,     \* largest serialized vault, in cells (a bound)
  NoPassword, NoSave, NoWriter

VaultMode == {"DeviceBound", "Portable"}
Vault == [mode : VaultMode, sequence_number : 0..MaxSeq, text : 1..MaxText]
SaveCall == {s \in [vault : Vault, key : Key, pass : Password \cup {NoPassword}] :
               s.vault.mode = ModeOf[s.key]}

ASSUME FormatAssumption ==
  /\ ModeOf \in [Key -> VaultMode]
  /\ Here \in Device
  /\ MaxSeq \in Nat /\ MaxText \in Nat \ {0}
  /\ NoPassword \notin Password
  /\ NoSave \notin SaveCall
  /\ NoWriter \notin Writer

VARIABLES
  file,    \* the cells of the vault file
  save,    \* what each call was given
  pos,     \* the offset of each call's handle
  owner    \* history: the call whose File::create was the last, while it is the
           \* only one to have written since

vars == <<file, save, pos, owner>>

-----------------------------------------------------------------------------
(* Ideal cryptography: cipher.rs, kdf.rs, sealing.rs *)

Zero == <<"zero", "">>       \* the zeros that fill a file below an offset
derive_key(pass, salt) == <<"argon2", pass, salt>>
derive_subkey(key) == <<"hkdf", key>>

\* encrypt: the ciphertext is as long as the plaintext, the tag binds key, nonce
\* and additional data.
Ciphertext(e) == [i \in 1..e.size |-> <<"ciphertext", <<e, i>>>>]
Tag(e) == <<"tag", e>>

\* decrypt, as the set of its successful results.
decrypt(key, nonce, tag, cells, aad) ==
  {e.plain : e \in {x \in (IF tag[1] = "tag" THEN {tag[2]} ELSE {}) :
                      /\ x.key = key /\ x.nonce = nonce /\ x.aad = aad
                      /\ cells = Ciphertext(x)}}

\* seal_key makes a blob of the TPM key's length; unseal_key takes it back on the
\* same device only.
SealedLen == 3
seal_key(blob, device) == [i \in 1..SealedLen |-> <<"sealed", <<blob, device, i>>>>]
unseal_key(cells, device) ==
  LET sealed == {i \in 1..Len(cells) : cells[i][1] = "sealed"}
  IN  {b \in {cells[i][2][1] : i \in sealed} : cells = seal_key(b, device)}

-----------------------------------------------------------------------------
(* Saving *)

Prefix == <<"prefix", "passx^ 1 V1_2024">>
Label(mode) == IF mode = "Portable" THEN "PASSX_PORTABLE_MASTER_KEY"
                                    ELSE "PASSX_DEVICE_BOUND_MASTER_KEY"

\* The additional data of the content. (mutant: the salt is left out)
AADNoSalt(mode, salt, seq) == <<Prefix, mode, seq>>
AAD(mode, salt, seq) == <<Prefix, mode, salt, seq>>

Salt(w) == <<"salt", w>>
WrapperNonce(w) == <<"wrapper_nonce", w>>
SeqNum(s) == <<"sequence_number", s.vault.sequence_number>>
ContentNonce(w) == <<"content_nonce", w>>

Wrapping(w, s) == [key |-> derive_key(s.pass, Salt(w)), nonce |-> WrapperNonce(w),
                   aad |-> Label(s.vault.mode), plain |-> s.key, size |-> 1]
Content(w, s) ==
  [key |-> derive_subkey(s.key), nonce |-> ContentNonce(w),
   aad |-> AAD(s.vault.mode, Salt(w), SeqNum(s)),
   plain |-> s.vault, size |-> s.vault.text]

Envelope(e) == Append(Ciphertext(e), Tag(e))
WrappedKey(w, s) == IF s.vault.mode = "Portable" THEN Envelope(Wrapping(w, s))
                    ELSE seal_key(Envelope(Wrapping(w, s)), Here)

\* The whole file, in the order of the calls of write_all.
Image(w, s) ==
  <<Prefix, <<"mode", s.vault.mode>>, Salt(w), WrapperNonce(w),
    <<"key_len", Len(WrappedKey(w, s))>>>>
  \o WrappedKey(w, s)
  \o <<SeqNum(s), ContentNonce(w)>>
  \o Envelope(Content(w, s))

-----------------------------------------------------------------------------
(* Loading *)

HeaderLen == 5
KeyLen(f) == IF f[5][1] = "key_len" THEN f[5][2] ELSE 0
WrappedPart(f) == SubSeq(f, HeaderLen + 1, HeaderLen + KeyLen(f))
AfterKey(f) == HeaderLen + KeyLen(f)

\* The header checks of load_vault_from_reader.
Parses(f) == /\ Len(f) >= HeaderLen
             /\ f[1] = Prefix
             /\ f[2] \in {<<"mode", m>> : m \in VaultMode}
             /\ Len(f) >= AfterKey(f) + 3
Mode(f) == f[2][2]

\* The master key, out of the last cell as tag and the rest as ciphertext.
EncryptedKey(f, device) == IF Mode(f) = "Portable" THEN {WrappedPart(f)}
                           ELSE unseal_key(WrappedPart(f), device)
Unwrap(f, pass, device) ==
  UNION {decrypt(derive_key(pass, f[3]), f[4], b[Len(b)], SubSeq(b, 1, Len(b) - 1),
                 Label(Mode(f))) : b \in EncryptedKey(f, device) \ {<<>>}}

Decrypted(f, key) ==
  decrypt(derive_subkey(key), f[AfterKey(f) + 2], f[Len(f)],
          SubSeq(f, AfterKey(f) + 3, Len(f) - 1),
          AAD(Mode(f), f[3], f[AfterKey(f) + 1]))

\* What loading f with a password on a device returns: one result, or none.
Load(f, pass, device) ==
  IF ~Parses(f) THEN {}
  ELSE {r \in UNION {{[vault |-> v, key |-> k] : v \in Decrypted(f, k)}
                       : k \in Unwrap(f, pass, device)} : r.vault.mode = Mode(f)}

-----------------------------------------------------------------------------
(* The calls of save_vault on one path *)

Begun(w) == save[w] # NoSave
Size(w) == Len(Image(w, save[w]))
Done(w) == /\ Begun(w)
           /\ save[w].pass # NoPassword
           /\ pos[w] = Size(w)

\* File::create leaves nothing of the old content. (mutant: the file is opened for
\* writing and not truncated)
Kept(f) == f
Truncated(f) == <<>>

Create(w, s) ==
  /\ ~Begun(w)
  /\ file' = Truncated(file)
  /\ save' = [save EXCEPT ![w] = s]
  /\ owner' = w
  /\ UNCHANGED pos

\* One more cell through w's handle, beyond the end after a gap of zeros if
\* another call truncated the file.  Without a password nothing is written, and a
\* call whose write fails or whose process ends takes no further step.
\* (mutant: the file is opened for append)
Appended(f, i, c) == Append(f, c)
Overwritten(f, i, c) ==
  [j \in 1..(IF i > Len(f) THEN i ELSE Len(f)) |->
     IF j = i THEN c ELSE IF j <= Len(f) THEN f[j] ELSE Zero]

Write(w) ==
  /\ Begun(w)
  /\ save[w].pass # NoPassword
  /\ pos[w] < Size(w)
  /\ file' = Overwritten(file, pos[w] + 1, Image(w, save[w])[pos[w] + 1])
  /\ pos' = [pos EXCEPT ![w] = @ + 1]
  /\ owner' = IF owner = w THEN w ELSE NoWriter
  /\ UNCHANGED save

Init ==
  /\ file = <<>>
  /\ save = [w \in Writer |-> NoSave]
  /\ pos = [w \in Writer |-> 0]
  /\ owner = NoWriter

Next == \E w \in Writer : Write(w) \/ \E s \in SaveCall : Create(w, s)

Spec == Init /\ [][Next]_vars

-----------------------------------------------------------------------------
(* Properties *)

\* The cells that hold what call w wrote there.
WrittenBy(w) == LET image == Image(w, save[w])
                IN  {i \in 1..Len(file) : i <= pos[w] /\ file[i] = image[i]}

\* The calls keep their types, and every cell of the file is a zero or a cell that
\* one of the calls wrote there (File::create, write_all).
TypeOK ==
  /\ save \in [Writer -> SaveCall \cup {NoSave}]
  /\ pos \in [Writer -> Nat]
  /\ owner \in Writer \cup {NoWriter}
  /\ {i \in 1..Len(file) : file[i] # Zero}
       \subseteq UNION {WrittenBy(w) : w \in {x \in Writer : pos[x] > 0}}

\* Whatever load_vault accepts, at any moment and however the writes of several
\* calls were mixed or cut off, is the complete image of one call: opened with
\* the password of that call, on its device if it is bound to one, it gives that
\* call's vault and master key, never a part of one with a part of another.
LoadedWasSaved ==
  \A pass \in Password, device \in Device : \A r \in Load(file, pass, device) :
    \E w \in Writer :
      /\ Done(w)
      /\ file = Image(w, save[w])
      /\ r = [vault |-> save[w].vault, key |-> save[w].key]
      /\ pass = save[w].pass
      /\ save[w].vault.mode = "Portable" \/ device = Here

\* A save_vault that ran to its end with nobody else writing since its
\* File::create can be loaded with its password, on its device if it is bound to
\* one and anywhere otherwise, whatever the file held before.
SavedLoads ==
  \A w \in Writer : owner = w /\ Done(w) =>
    \A device \in Device :
      save[w].vault.mode = "Portable" \/ device = Here =>
        Load(file, save[w].pass, device)
          = {[vault |-> save[w].vault, key |-> save[w].key]}

\* When a save_vault ends, the file is its image, or nothing can be loaded from it
\* (another call truncated it or wrote over it meanwhile): never the image of
\* another call.  VaultSession takes this as what a finished write leaves.
EndsInItsImage ==
  [][\A w \in Writer : pos'[w] > pos[w] /\ Done(w)' =>
       \/ file' = Image(w, save[w])
       \/ \A pass \in Password, device \in Device : Load(file', pass, device) = {}]_vars
=============================================================================
