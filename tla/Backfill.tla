------------------------------ MODULE Backfill ------------------------------
(***************************************************************************)
(* The scripts an operator runs over stored images while the application   *)
(* serves: scripts/encrypt_stored_images.py moves plaintext files into     *)
(* encrypted rows and later deletes the files, and                         *)
(* scripts/reembed_references.py rebuilds the references' embeddings.      *)
(*                                                                         *)
(* Each script reads its rows first, handles them one by one and commits   *)
(* once; what it read may change before it commits, and an update of a row *)
(* that is gone fails the commit.  A step is the first read, one row or    *)
(* file, or the commit; the application's own operations are one step      *)
(* each (Enrolment and Verification model them in detail).                 *)
(*                                                                         *)
(* A file is named after its row.  A key is a number, new each time one is *)
(* minted; sealing and opening are the number of the key.  An embedding is *)
(* the version of the preparation that made it.                            *)
(***************************************************************************)
EXTENDS Integers

CONSTANTS
  Reference, Query,  \* ids of reference_signatures and of verifications
  Customer,
  Owner,             \* the customer of each row
  Bytes,             \* the image of each row: rows may hold equal images
  MaxKeys,           \* bound: keys minted in one behaviour
  MaxPrep            \* bound: versions of the preparation

ImageRow == Reference \cup Query

ASSUME OwnersAssumption == Owner \in [ImageRow -> Customer]

NoKey == 0

VARIABLES
  stored,   \* row -> [path, key, prep]: does it name its file, which key seals it
  files,    \* the rows whose plaintext file is on disk
  key,      \* customer -> the key in customer_keys
  minted,   \* keys minted so far
  prep,     \* the preparation in force
  tool,     \* the script
  gone      \* ghost: images the institution purged, deleted or erased

backfillVars == <<stored, files, key, minted, prep, tool, gone>>

NoTool == [pc |-> "idle", todo |-> {}, rows |-> <<>>, done |-> <<>>, keys |-> <<>>,
           digests |-> {}, missing |-> FALSE, prep |-> 0, outcome |-> "none"]

Put(f, x, y) == [z \in DOMAIN f \cup {x} |-> IF z = x THEN y ELSE f[z]]

Images(rows) == {Bytes[r] : r \in rows}

(* Whether the image of row r, holding m, can be read when the customer's  *)
(* key is k (reference_image_bytes, decrypt_query_image).                  *)
Shown(r, m, k) == IF m.key # NoKey THEN m.key = k ELSE m.path /\ r \in files

-----------------------------------------------------------------------------
(* encrypt_stored_images.py *)

MoveRead ==
  /\ tool.pc = "idle"
  /\ tool' = [NoTool EXCEPT
       !.pc = "move",
       !.todo = {r \in DOMAIN stored : stored[r].key = NoKey /\ stored[r].path}]
  /\ UNCHANGED <<stored, files, key, minted, prep, gone>>

(* The key the script seals under: the customer's, or one it mints in its  *)
(* own transaction.                                                        *)
ScriptKey(c) ==
  IF key[c] # NoKey THEN key[c] ELSE IF c \in DOMAIN tool.keys THEN tool.keys[c] ELSE NoKey

MoveRow(r) ==
  /\ tool.pc = "move" /\ r \in tool.todo
  /\ LET c == Owner[r] IN
     \/ /\ r \notin files
        /\ tool' = [tool EXCEPT !.todo = @ \ {r}]
        /\ UNCHANGED minted
     \/ /\ r \in files /\ ScriptKey(c) # NoKey
        /\ tool' = [tool EXCEPT !.todo = @ \ {r}, !.done = Put(@, r, ScriptKey(c))]
        /\ UNCHANGED minted
     \/ /\ r \in files /\ ScriptKey(c) = NoKey /\ minted < MaxKeys
        /\ minted' = minted + 1
        /\ tool' = [tool EXCEPT !.todo = @ \ {r}, !.done = Put(@, r, minted'),
                                !.keys = Put(@, c, minted')]
  /\ UNCHANGED <<stored, files, key, prep, gone>>

MoveCommit ==
  /\ tool.pc = "move" /\ tool.todo = {}
  /\ IF DOMAIN tool.done \subseteq DOMAIN stored
     THEN /\ stored' = [r \in DOMAIN stored |->
               IF r \in DOMAIN tool.done
               THEN [stored[r] EXCEPT !.key = tool.done[r], !.path = FALSE]
               ELSE stored[r]]
          /\ key' = [c \in Customer |-> IF c \in DOMAIN tool.keys THEN tool.keys[c] ELSE key[c]]
     ELSE UNCHANGED <<stored, key>>
  /\ tool' = NoTool
  /\ UNCHANGED <<files, minted, prep, gone>>

(* Deviation: a row is proof of its image once it is sealed at all.        *)
DigestsOfSealed == Images({r \in DOMAIN stored : stored[r].key # NoKey \/ stored[r].path})

(* The images some row's ciphertext decrypts to.                           *)
DecryptedDigests ==
  Images({r \in DOMAIN stored : stored[r].key # NoKey /\ stored[r].key = key[Owner[r]]})

DeleteRead ==
  /\ tool.pc = "idle"
  /\ tool' = [NoTool EXCEPT !.pc = "delete", !.todo = files, !.digests = DecryptedDigests]
  /\ UNCHANGED <<stored, files, key, minted, prep, gone>>

DeleteFile(f) ==
  /\ tool.pc = "delete" /\ f \in tool.todo
  /\ tool' = [tool EXCEPT !.todo = @ \ {f}]
  /\ files' = IF Bytes[f] \in tool.digests THEN files \ {f} ELSE files
  /\ UNCHANGED <<stored, key, minted, prep, gone>>

DeleteDone ==
  /\ tool.pc = "delete" /\ tool.todo = {}
  /\ tool' = NoTool
  /\ UNCHANGED <<stored, files, key, minted, prep, gone>>

-----------------------------------------------------------------------------
(* reembed_references.py *)

ReembedRead ==
  /\ tool.pc = "idle"
  /\ tool' = [NoTool EXCEPT !.pc = "reembed", !.prep = prep,
                              !.todo = DOMAIN stored \cap Reference, !.rows = stored]
  /\ UNCHANGED <<stored, files, key, minted, prep, gone>>

(* Deviation: a row that cannot be read is passed over in silence.         *)
UnreadQuietly == tool.missing

Unread == TRUE

(* A customer's key is looked up once and kept, a row is as it was read; a *)
(* row already on the preparation in force is not written.                 *)
ReembedRow(r) ==
  /\ tool.pc = "reembed" /\ r \in tool.todo
  /\ LET c == Owner[r]
         k == IF c \in DOMAIN tool.keys THEN tool.keys[c] ELSE key[c]
         read == [tool EXCEPT !.todo = @ \ {r}, !.keys = Put(@, c, k)]
     IN  tool' =
           IF ~ Shown(r, tool.rows[r], k) THEN [read EXCEPT !.missing = Unread]
           ELSE IF tool.rows[r].prep = tool.prep THEN read
           ELSE [read EXCEPT !.done = Put(@, r, tool.prep)]
  /\ UNCHANGED <<stored, files, key, minted, prep, gone>>

ReembedCommit ==
  /\ tool.pc = "reembed" /\ tool.todo = {}
  /\ IF DOMAIN tool.done \subseteq DOMAIN stored
     THEN /\ stored' = [r \in DOMAIN stored |->
               IF r \in DOMAIN tool.done THEN [stored[r] EXCEPT !.prep = tool.prep]
               ELSE stored[r]]
          /\ tool' = [NoTool EXCEPT !.outcome = IF tool.missing THEN "missing" ELSE "rebuilt",
                                    !.prep = tool.prep]
     ELSE /\ tool' = NoTool
          /\ UNCHANGED stored
  /\ UNCHANGED <<files, key, minted, prep, gone>>

ToolKilled ==
  /\ tool.pc # "idle"
  /\ tool' = NoTool
  /\ UNCHANGED <<stored, files, key, minted, prep, gone>>

-----------------------------------------------------------------------------
(* The application, and erasure *)

(* A verdict's image or a new reference, sealed under the customer's key.  *)
(* Where the script is minting one, the application waits for it.          *)
Store(r) ==
  /\ r \notin DOMAIN stored /\ Bytes[r] \notin gone
  /\ LET c == Owner[r] IN
     \/ /\ key[c] # NoKey
        /\ stored' = Put(stored, r, [path |-> FALSE, key |-> key[c], prep |-> prep])
        /\ UNCHANGED <<key, minted>>
     \/ /\ key[c] = NoKey /\ minted < MaxKeys
        /\ tool.pc = "move" => c \notin DOMAIN tool.keys
        /\ minted' = minted + 1
        /\ key' = [key EXCEPT ![c] = minted']
        /\ stored' = Put(stored, r, [path |-> FALSE, key |-> minted', prep |-> prep])
  /\ UNCHANGED <<files, prep, tool, gone>>

(* Retention: the row stays, its image goes, wherever it was.              *)
Purge(q) ==
  /\ q \in DOMAIN stored \cap Query
  /\ stored[q].path \/ stored[q].key # NoKey
  /\ stored' = [stored EXCEPT ![q].path = FALSE, ![q].key = NoKey]
  /\ files' = IF stored[q].path THEN files \ {q} ELSE files
  /\ gone' = gone \cup {Bytes[q]}
  /\ UNCHANGED <<key, minted, prep, tool>>

DeleteReference(r) ==
  /\ r \in DOMAIN stored \cap Reference
  /\ stored' = [s \in DOMAIN stored \ {r} |-> stored[s]]
  /\ files' = IF stored[r].path THEN files \ {r} ELSE files
  /\ gone' = gone \cup {Bytes[r]}
  /\ UNCHANGED <<key, minted, prep, tool>>

(* Erasure: nothing under src calls customer_keys.destroy, an operator     *)
(* does.                                                                   *)
Destroy(c) ==
  /\ key[c] # NoKey
  /\ key' = [key EXCEPT ![c] = NoKey]
  /\ gone' = gone \cup Images({r \in ImageRow : Owner[r] = c})
  /\ UNCHANGED <<stored, files, minted, prep, tool>>

(* A new version of the preparation goes into force.                       *)
Deploy ==
  /\ prep < MaxPrep
  /\ prep' = prep + 1
  /\ UNCHANGED <<stored, files, key, minted, tool, gone>>

-----------------------------------------------------------------------------
(* Rows of before the move, their files beside the database, some of them  *)
(* missing.                                                                *)
BackfillInit ==
  /\ \E old \in SUBSET ImageRow, lost \in SUBSET ImageRow :
       /\ stored = [r \in old |-> [path |-> TRUE, key |-> NoKey, prep |-> 1]]
       /\ files = old \ lost
       /\ gone = Images(lost \cap old)
  /\ key = [c \in Customer |-> NoKey]
  /\ minted = 0 /\ prep = 1 /\ tool = NoTool

BackfillNext ==
  \/ MoveRead \/ MoveCommit \/ DeleteRead \/ DeleteDone \/ ReembedRead \/ ReembedCommit
  \/ ToolKilled \/ Deploy
  \/ \E r \in ImageRow : MoveRow(r) \/ ReembedRow(r) \/ DeleteFile(r) \/ Store(r)
  \/ \E q \in Query : Purge(q)
  \/ \E r \in Reference : DeleteReference(r)
  \/ \E c \in Customer : Destroy(c)

BackfillSpec == BackfillInit /\ [][BackfillNext]_backfillVars

-----------------------------------------------------------------------------
(* Properties *)

(* As long as no row with that image was purged, deleted or erased, an     *)
(* image that was stored can still be had: its file is there, or a row     *)
(* decrypts to it, whatever the scripts did and where they stopped         *)
(* ("a file is removed because the encrypted copy has been proven          *)
(* readable", lines 17-20).                                                *)
CopyRemains ==
  \A r \in DOMAIN stored : Bytes[r] \notin gone =>
    Bytes[r] \in Images(files \cup {s \in DOMAIN stored : Shown(s, stored[s], key[Owner[s]])})

(* When the rebuild reports no missing image, every reference in the       *)
(* registry has an embedding of the preparation it rebuilt for, as long as *)
(* that one is in force.                                                   *)
AllRebuilt ==
  tool.outcome = "rebuilt" /\ tool.prep = prep =>
    \A r \in DOMAIN stored \cap Reference : stored[r].prep = prep
=============================================================================
