--------------------------- MODULE CredentialStore ---------------------------
(***************************************************************************)
(* Where logins are kept (auth/stdio/credential-store.ts): one entry per   *)
(* issuer, in the keychain of the operating system or in a JSON file that  *)
(* is read whole, changed and replaced by a rename.  The operators are the *)
(* steps of a process that saves or deletes an entry; what it does with a  *)
(* temporary file before the rename is seen by nobody.                     *)
(*                                                                         *)
(* Left out: permissions, and the contents of an entry beyond its being    *)
(* readable.                                                               *)
(***************************************************************************)
EXTENDS Naturals, FiniteSets

CONSTANTS
  Process,
  Issuer,      \* authorization servers; logins are keyed by them
  Login,       \* what is stored for an issuer
  Preference,  \* Preference[p]: BUGSECURE_CREDENTIAL_STORE of the process
  Garbled,     \* contents of the file that cannot be read
  None

Preferences == {"auto", "keychain", "file"}

ASSUME StoreAssumption ==
  /\ Preference \in [Process -> Preferences]
  /\ None \notin Login
  /\ Garbled \notin [Issuer -> Login \cup {None}]

VARIABLES
  keyring,   \* a keychain answers
  keychain,  \* keychain[i]: the login stored there for issuer i
  file,      \* the contents of credentials.json
  kind,      \* kind[p]: the store the process uses, None before it chose one
  entries,   \* entries[p]: what the process has read of the file
  promised   \* history: promised[k][i], what was last saved or deleted there

storeVars == <<keyring, keychain, file, kind, entries, promised>>

Entries == [Issuer -> Login \cup {None}]
NoEntries == [i \in Issuer |-> None]
Kinds == {"keychain", "file"}

StoreTypeOK ==
  /\ keyring \in BOOLEAN
  /\ keychain \in Entries
  /\ file \in Entries \cup {Garbled}
  /\ kind \in [Process -> Kinds \cup {None}]
  /\ entries \in [Process -> Entries]
  /\ promised \in [Kinds -> Entries]

StoreInit ==
  /\ keyring \in BOOLEAN
  /\ keychain = NoEntries
  /\ file \in {NoEntries, Garbled}
  /\ kind = [p \in Process |-> None]
  /\ entries = [p \in Process |-> NoEntries]
  /\ promised = [k \in Kinds |-> NoEntries]

\* readAll: contents that cannot be read count as no entries, with a warning.
ReadAll == IF file = Garbled THEN NoEntries ELSE file

\* The entry that load reads from the store of process p, if that answers.
Answers(p) == kind[p] = "keychain" => keyring
Loaded(p, i) == IF kind[p] = "file" THEN ReadAll[i] ELSE keychain[i]

\* createCredentialStore: the keychain if it is wanted and answers.
Choices(p) ==
  CASE Preference[p] = "file"     -> {"file"}
    [] Preference[p] = "keychain" -> IF keyring THEN {"keychain"} ELSE {}
    [] Preference[p] = "auto"     -> IF keyring THEN {"keychain"} ELSE {"file"}

Choose(p, k) ==
  /\ k \in Choices(p)
  /\ kind' = [kind EXCEPT ![p] = k]
  /\ UNCHANGED <<keyring, keychain, file, entries, promised>>

\* The first half of save and delete: a file store reads all entries.
ReadEntries(p) ==
  /\ entries' = [entries EXCEPT ![p] = IF kind[p] = "file" THEN ReadAll ELSE @]
  /\ UNCHANGED <<keyring, keychain, file, kind, promised>>

Promise(p, i, l) == promised' = [promised EXCEPT ![kind[p]] = [@ EXCEPT ![i] = l]]

\* The process is through with its store.
Forget(p) ==
  /\ kind' = [kind EXCEPT ![p] = None]
  /\ entries' = [entries EXCEPT ![p] = NoEntries]

\* The second half: what was read, with l for issuer i, replaces the file.
ReplaceFile(p, i, l) ==
  /\ kind[p] = "file"
  /\ file' = [entries[p] EXCEPT ![i] = l]
  /\ Promise(p, i, l)
  /\ UNCHANGED <<keyring, keychain>>

SetPassword(p, i, l) ==
  /\ kind[p] = "keychain" /\ keyring
  /\ keychain' = [keychain EXCEPT ![i] = l]
  /\ Promise(p, i, l)
  /\ UNCHANGED <<keyring, file>>

\* A save, or a delete where l is None.
Put(p, i, l) == (ReplaceFile(p, i, l) \/ SetPassword(p, i, l)) /\ Forget(p)

\* It ends without a change.
Abandon(p) == Forget(p) /\ UNCHANGED <<keyring, keychain, file, promised>>

\* A keychain service starts or stops, or locks.
KeyringChanges ==
  /\ keyring' = ~keyring
  /\ UNCHANGED <<keychain, file, kind, entries, promised>>

-----------------------------------------------------------------------------
\* Nobody loses an entry to a change of another one: every entry is the one
\* last saved for its issuer, whatever other processes did to the same file.
NoEntryLost ==
  \A i \in Issuer :
    keychain[i] = promised["keychain"][i] /\ ReadAll[i] = promised["file"][i]
=============================================================================
