------------------------------ MODULE KeyFile ------------------------------
(***************************************************************************)
(* The field encryption key (backend/core/secrets.py) and the provider     *)
(* secrets encrypted with it (backend/domains/settings/store.py).          *)
(*                                                                         *)
(* Every request that needs a cipher loads the key file, or creates it     *)
(* when there is none: it looks, creates the file exclusively, and writes  *)
(* the key when it closes the file.  No lock is held in between, and the   *)
(* process may be killed at any point.                                     *)
(***************************************************************************)
EXTENDS FiniteSets

CONSTANTS
    KeyCallers,   \* request threads that ask for a cipher
    FieldKeys,    \* keys Fernet.generate_key can return; bounds their number
    NoKey,        \* no key: no file, or no stored secret
    EmptyKey      \* the content of a file that was created and not written

ASSUME KeyFileAssumption ==
    /\ NoKey \notin FieldKeys
    /\ EmptyKey \notin FieldKeys
    /\ NoKey # EmptyKey

VARIABLES
    keyFile,      \* content of the key file, NoKey when there is no file
    secretKey,    \* key the stored provider secret is encrypted with
    usedKeys,     \* keys generated so far: generate_key never repeats one
    caller        \* caller[c]: what thread c is doing

keyFileVars == <<keyFile, secretKey, usedKeys, caller>>

\* key: the key of the cipher, or the one about to be written;
\* seen: the SELECT of the secret found a row.
Caller ==
    [phase : {"idle", "read", "create", "write", "ready", "saving"},
     key : FieldKeys \cup {NoKey}, seen : BOOLEAN]

Resting == [phase |-> "idle", key |-> NoKey, seen |-> FALSE]

KeyFileTypeOK ==
    /\ keyFile \in FieldKeys \cup {NoKey, EmptyKey}
    /\ secretKey \in FieldKeys \cup {NoKey}
    /\ usedKeys \subseteq FieldKeys
    /\ caller \in [KeyCallers -> Caller]

InitKeyFile ==
    /\ keyFile = NoKey
    /\ secretKey = NoKey
    /\ usedKeys = {}
    /\ caller = [c \in KeyCallers |-> Resting]

-----------------------------------------------------------------------------
(* _load_or_create_key_file and SecretCipher                               *)

In(c, phase) == caller[c].phase = phase

Become(c, phase, key) ==
    caller' = [caller EXCEPT ![c] = [phase |-> phase, key |-> key, seen |-> FALSE]]

\* An exception: the request answers 500 and the thread is free again.
GiveUp(c) == caller' = [caller EXCEPT ![c] = Resting]

\* key_path.exists()
LookForKeyFile(c) ==
    /\ In(c, "idle")
    /\ Become(c, IF keyFile = NoKey THEN "create" ELSE "read", NoKey)
    /\ UNCHANGED <<keyFile, secretKey, usedKeys>>

\* read_bytes; Fernet refuses the empty content.
ReadKeyFile(c) ==
    /\ In(c, "read")
    /\ IF keyFile \in FieldKeys THEN Become(c, "ready", keyFile) ELSE GiveUp(c)
    /\ UNCHANGED <<keyFile, secretKey, usedKeys>>

\* os.open without O_EXCL (a mutant): whoever opens the file truncates it.
CreateKeyFileTruncating(c) ==
    /\ In(c, "create")
    /\ \E key \in FieldKeys \ usedKeys :
        /\ usedKeys' = usedKeys \cup {key}
        /\ keyFile' = EmptyKey
        /\ Become(c, "write", key)
    /\ UNCHANGED secretKey

\* generate_key, then os.open with O_CREAT | O_EXCL, which fails when the
\* file exists by now.
CreateKeyFile(c) ==
    /\ In(c, "create")
    /\ \E key \in FieldKeys \ usedKeys :
        /\ usedKeys' = usedKeys \cup {key}
        /\ \/ /\ keyFile = NoKey
              /\ keyFile' = EmptyKey
              /\ Become(c, "write", key)
           \/ /\ keyFile # NoKey
              /\ GiveUp(c)
              /\ UNCHANGED keyFile
    /\ UNCHANGED secretKey

\* The buffered write reaches the file when the handle is closed.
WriteKeyFile(c) ==
    /\ In(c, "write")
    /\ keyFile' = caller[c].key
    /\ Become(c, "ready", caller[c].key)
    /\ UNCHANGED <<secretKey, usedKeys>>

-----------------------------------------------------------------------------
(* The provider secret                                                     *)

\* upsert_secret encrypts and SELECTs the row ...
LoadSecretRow(c) ==
    /\ In(c, "ready")
    /\ caller' = [caller EXCEPT ![c].phase = "saving", ![c].seen = secretKey # NoKey]
    /\ UNCHANGED <<keyFile, secretKey, usedKeys>>

\* ... and commits an UPDATE of the row it saw, or an INSERT.  The UPDATE of a
\* row that is gone and the INSERT of one that is there are rolled back.
CommitSecret(c) ==
    /\ In(c, "saving")
    /\ secretKey' = IF caller[c].seen = (secretKey # NoKey) THEN caller[c].key ELSE secretKey
    /\ GiveUp(c)
    /\ UNCHANGED <<keyFile, usedKeys>>

\* delete_secret
DeleteSecret(c) ==
    /\ In(c, "ready")
    /\ secretKey' = NoKey
    /\ GiveUp(c)
    /\ UNCHANGED <<keyFile, usedKeys>>

\* get_secret_value, list_secret_statuses: the request only reads.
ReadSecret(c) ==
    /\ In(c, "ready")
    /\ GiveUp(c)
    /\ UNCHANGED <<keyFile, secretKey, usedKeys>>

\* The process is killed: the threads are gone, the file and the row stay.
KillProcess ==
    /\ \E c \in KeyCallers : ~ In(c, "idle")
    /\ caller' = [c \in KeyCallers |-> Resting]
    /\ UNCHANGED <<keyFile, secretKey, usedKeys>>

NextKeyFile ==
    \/ \E c \in KeyCallers :
        \/ LookForKeyFile(c) \/ ReadKeyFile(c) \/ CreateKeyFile(c) \/ WriteKeyFile(c)
        \/ LoadSecretRow(c) \/ CommitSecret(c) \/ DeleteSecret(c) \/ ReadSecret(c)
    \/ KillProcess

KeyFileSpec == InitKeyFile /\ [][NextKeyFile]_keyFileVars

-----------------------------------------------------------------------------

\* Every cipher handed out, and every stored secret, uses the key that is in
\* the file, however many requests found no file at the same time and wherever
\* the process was killed: what has been stored stays readable.
OneKey ==
    /\ \A c \in KeyCallers : caller[c].phase \in {"ready", "saving"} => caller[c].key = keyFile
    /\ secretKey # NoKey => secretKey = keyFile

\* Inductive: the file is being written by at most one thread, and is empty
\* until that thread has written it.
WriterInv ==
    /\ \A c \in KeyCallers : In(c, "write") => keyFile = EmptyKey
    /\ \A c, d \in KeyCallers : In(c, "write") /\ In(d, "write") => c = d
    /\ \A c \in KeyCallers : In(c, "read") => keyFile # NoKey
    /\ \A c \in KeyCallers :
        caller[c].phase \in {"write", "ready", "saving"} => caller[c].key \in FieldKeys

KeyFileInv == KeyFileTypeOK /\ OneKey /\ WriterInv
=============================================================================
