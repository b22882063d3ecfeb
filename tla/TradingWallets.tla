--------------------------- MODULE TradingWallets ---------------------------
(***************************************************************************)
(* walletManager.ts, secureKeyManager.ts and clobClientFactory.ts: the     *)
(* trading wallets and copy assignments of one tenant, in memory and in    *)
(* bot_config, their encrypted keystore files, and the CLOB clients that   *)
(* sign with the keys.                                                     *)
(*                                                                         *)
(* A step is what the code does between two awaits that do I/O.  A wallet  *)
(* in a list is its identifier and its key, which stands for the address;  *)
(* labels, proxies, `isActive' and the builder credentials are left out,   *)
(* their writes and saves are not.                                         *)
(***************************************************************************)
EXTENDS Integers, SequencesExt, BagsExt

CONSTANTS
  Ids, PrivateKeys,  \* trading wallets, private keys
  Addresses,         \* tracked wallets
  Earlier,           \* the lists that may exist when the process starts
  Hosted,            \* TRUE: hosted multi-tenant mode, which implies SQLite
  AtomicStorage,     \* SQLite backend: no I/O between load and save
  Events,            \* optional events: "crash", "save", "setting"
  MaxPending,        \* bound: requests under way
  MaxEdits, MaxFaults \* bounds: requests that change something, faults

\* crash: the process dies; save: a write fails; setting: another setting of
\* bot_config is saved.  The lists that exist were made by adds that did not
\* overlap: no identifier has two keys.
ASSUME WalletAssumption ==
  /\ Hosted \in BOOLEAN /\ AtomicStorage \in BOOLEAN
  /\ Hosted => AtomicStorage
  /\ Earlier \subseteq Seq([id : Ids, key : PrivateKeys])
  /\ \A l \in Earlier : \A v, w \in Range(l) : v.id = w.id => v.key = w.key
  /\ Events \subseteq {"crash", "save", "setting"}
  /\ MaxPending \in Nat /\ MaxEdits \in Nat /\ MaxFaults \in Nat

VARIABLES
  list, assigned,  \* TenantWalletState: tradingWallets, copyAssignments
  known,           \* its flag `loaded'
  disk,            \* the same two, in bot_config
  keystore,        \* the key in each keystore file
  signers,         \* decryptedWallets
  unlocked,        \* unlockAllWallets has run; not used when hosted
  clients,         \* the cache of CLOB clients: the key each one signs with
  pending,         \* a bag of the requests under way
  stored,          \* history: what was put into keystore files and not removed
  contested,       \* history: wallets of which two adds overlapped
  removed,         \* history: wallets that were removed
  misplaced,       \* history: a removal took another entry off the list
  mixed,           \* history: a save has the lists of two moments
  edits, faults

memory == <<list, assigned, known>>
vault  == <<signers, unlocked>>
past   == <<stored, contested, removed, misplaced, mixed>>
walletVars ==
  <<memory, disk, keystore, vault, clients, pending, past, edits, faults>>

Nothing == [i \in {} |-> 0]
Without(f, i) == [j \in DOMAIN f \ {i} |-> f[j]]
With(f, i, v) == [j \in DOMAIN f \union {i} |-> IF j = i THEN v ELSE f[j]]

Config(l, a)   == [list |-> l, assigned |-> a]
Entry(id, key) == [id |-> id, key |-> key]
Listed(l)      == {w.id : w \in Range(l)}
First(l, id)   == SelectInSeq(l, LAMBDA w : w.id = id)

\* A request.  pc: what it awaits; at: the index it found; list, assigned: what
\* it read or is saving, empty for the array that is in memory; todo: keystore
\* files to decrypt.
Request(pc) == [pc |-> pc, id |-> "", key |-> "", at |-> 0, list |-> {},
                assigned |-> {}, todo |-> {}]
Carrying(pc, m) == [Request(pc) EXCEPT !.list = {m.list}, !.assigned = {m.assigned}]

\* A request starts; request r goes on as q; what remains when r ends.
Starts(q)  == /\ BagCardinality(pending) < MaxPending
              /\ pending' = pending (+) SetToBag({q})
OtherRequests(r)  == pending (-) SetToBag({r})
Goes(r, q) == pending' = OtherRequests(r) (+) SetToBag({q})
Ends(r)    == pending' = OtherRequests(r)

Fault(e) == e \in Events /\ faults < MaxFaults /\ faults' = faults + 1
Edit     == edits < MaxEdits /\ edits' = edits + 1

\* A process that starts with the wallets and assignments that it finds.
WalletInit ==
  /\ \E l \in Earlier, a \in SUBSET (Addresses \X Ids) :
       /\ \A t \in a : t[2] \in Listed(l)
       /\ disk = Config(l, a)
  /\ stored = Range(disk.list)
  /\ keystore = [i \in Listed(disk.list) |-> disk.list[First(disk.list, i)].key]
  /\ known = ~Hosted
  /\ list = IF Hosted THEN <<>> ELSE disk.list
  /\ assigned = IF Hosted THEN {} ELSE disk.assigned
  /\ signers = Nothing /\ unlocked = FALSE /\ clients = Nothing
  /\ pending = EmptyBag
  /\ contested = {} /\ removed = {} /\ misplaced = FALSE /\ mixed = FALSE
  /\ edits = 0 /\ faults = 0

\* ensureWalletConfigLoaded.  Unless hosted the start of the process has loaded
\* the lists, and SQLite loads them in the same turn.
Now == IF known THEN Config(list, assigned) ELSE disk
NowIs(m) == list' = m.list /\ assigned' = m.assigned /\ known' = TRUE

-----------------------------------------------------------------------------
(* bot_config.                                                             *)

\* The lists become l and a, and a request besides the others goes on in
\* saveWalletConfig.  In SQLite that is over at once, or fails.
ChangeAndSave(others, l, a) ==
  /\ NowIs(Config(l, a))
  /\ IF AtomicStorage
     THEN /\ pending' = others
          /\ \/ disk' = Config(l, a) /\ UNCHANGED faults
             \/ Fault("save") /\ UNCHANGED disk
     ELSE /\ pending' = others (+) SetToBag({Request("load")})
          /\ UNCHANGED <<disk, faults>>

\* An array that is changed in place changes for a save that waits to write it,
\* too; one that is replaced stays what it was for that save.
Fixed(q, l, a) ==
  [q EXCEPT !.list     = IF @ = {} THEN l ELSE @,
            !.assigned = IF @ = {} THEN a ELSE @]
Keep(others, l, a) ==
  LET waiting == {q \in BagToSet(others) : q.pc = "dir"} IN
  [q \in BagToSet(others) \ waiting |-> others[q]]
    (+) BagOfAll(LAMBDA q : Fixed(q, l, a), [q \in waiting |-> others[q]])
KeepLists(others)    == Keep(others, {list}, {assigned})
KeepAssigned(others) == Keep(others, {}, {assigned})

\* A request that changes the lists in the turn in which it starts.
StartAndSave(others, l, a) ==
  /\ BagCardinality(pending) < MaxPending
  /\ ChangeAndSave(others, l, a)

\* saveWalletConfig has loaded bot_config, and puts the arrays in.
SaveLoads(r) ==
  /\ r.pc = "load"
  /\ Goes(r, Request("dir"))
  /\ UNCHANGED <<memory, disk, keystore, vault, clients, past, edits, faults>>

\* The data directory is there: the configuration becomes text.
SaveFormats(r) ==
  /\ r.pc = "dir"
  /\ Goes(r, [Fixed(r, {list}, {assigned}) EXCEPT !.pc = "write"])
  /\ UNCHANGED <<memory, disk, keystore, vault, clients, past, edits, faults>>

SaveWrites(r) ==
  /\ r.pc = "write"
  /\ \E l \in r.list, a \in r.assigned : disk' = Config(l, a)
  /\ Ends(r)
  /\ UNCHANGED <<memory, keystore, vault, clients, past, edits, faults>>

\* A write of bot_config or of a keystore file fails, and with it the request.
WriteFails(r) ==
  /\ r.pc \in {"load", "dir", "write", "keyfile", "credfile", "newcreds"}
  /\ Fault("save")
  /\ Ends(r)
  /\ UNCHANGED <<memory, disk, keystore, vault, clients, past, edits>>

\* A setter of storage.ts loads bot_config, changes another key and writes.
OtherSetting ==
  /\ "setting" \in Events /\ ~AtomicStorage
  /\ Edit
  /\ Starts(Carrying("write", disk))
  /\ UNCHANGED <<memory, disk, keystore, vault, clients, past, faults>>

\* initWalletManager, which several GET routes and the position life cycle
\* call: the lists are read again, and replace those in memory.
Reread ==
  /\ IF AtomicStorage
     THEN NowIs(disk) /\ UNCHANGED pending
     ELSE Starts(Carrying("read", disk)) /\ UNCHANGED memory
  /\ UNCHANGED <<disk, keystore, vault, clients, past, edits, faults>>

RereadEnds(r) ==
  /\ r.pc = "read"
  /\ \E l \in r.list, a \in r.assigned : NowIs(Config(l, a))
  /\ pending' = KeepLists(OtherRequests(r))
  /\ UNCHANGED <<disk, keystore, vault, clients, past, edits, faults>>

-----------------------------------------------------------------------------
(* Adding and removing a wallet.                                           *)

\* addTradingWallet: not in the list.
AddTradingWallet(id, key) ==
  /\ Edit
  /\ id \notin Listed(Now.list)
  /\ NowIs(Now)
  /\ Starts([Request("access") EXCEPT !.id = id, !.key = key])
  /\ UNCHANGED <<disk, keystore, vault, clients, past, faults>>

\* addEncryptedWallet: nor is there a keystore file.  An add that is about to
\* write one of the same identifier overlaps with this one.
Writes(r) ==
  /\ Goes(r, [r EXCEPT !.pc = "keyfile"])
  /\ contested' = contested \union
                  {q.id : q \in {p \in BagToSet(pending) :
                                   p.pc = "keyfile" /\ p.id = r.id}}
  /\ UNCHANGED <<memory, disk, keystore, vault, clients, stored, removed,
                 misplaced, mixed, edits, faults>>

\* Mutant: the file is not asked for.
KeystoreMissing_Unchecked(r) == r.pc = "access" /\ Writes(r)

KeystoreMissing(r) == r.pc = "access" /\ r.id \notin DOMAIN keystore /\ Writes(r)

KeystoreExists(r) ==
  /\ r.pc = "access"
  /\ r.id \in DOMAIN keystore
  /\ Ends(r)
  /\ UNCHANGED <<memory, disk, keystore, vault, clients, past, edits, faults>>

\* The wallet is listed, and the list saved.
ListWallet(r) ==
  ChangeAndSave(OtherRequests(r), Append(Now.list, Entry(r.id, r.key)), Now.assigned)

\* The key is on disk and in memory.  Builder credentials, if given, follow.
KeystoreWritten(r) ==
  /\ r.pc = "keyfile"
  /\ keystore' = With(keystore, r.id, r.key)
  /\ signers'  = With(signers, r.id, r.key)
  /\ stored'   = stored \union {Entry(r.id, r.key)}
  /\ \/ ListWallet(r)
     \/ /\ Goes(r, [r EXCEPT !.pc = "credfile"])
        /\ UNCHANGED <<memory, disk, faults>>
  /\ UNCHANGED <<unlocked, clients, contested, removed, misplaced, mixed, edits>>

CredentialsWritten(r) ==
  /\ r.pc = "credfile"
  /\ ListWallet(r)
  /\ UNCHANGED <<keystore, vault, clients, past, edits>>

RemoveTradingWallet(id) ==
  /\ Edit
  /\ id \in Listed(Now.list)
  /\ NowIs(Now)
  /\ Starts([Request("unlink") EXCEPT !.id = id, !.at = First(Now.list, id)])
  /\ UNCHANGED <<disk, keystore, vault, clients, past, faults>>

\* removeEncryptedWallet: the file goes first; without it the request fails.
UnlinkKeystore(r) ==
  /\ r.pc = "unlink"
  /\ IF r.id \in DOMAIN keystore
     THEN /\ keystore' = Without(keystore, r.id)
          /\ signers'  = Without(signers, r.id)
          /\ stored'   = {s \in stored : s.id # r.id}
          /\ removed'  = removed \union {r.id}
          /\ Goes(r, [r EXCEPT !.pc = "unlinkcreds"])
     ELSE Ends(r) /\ UNCHANGED <<keystore, signers, stored, removed>>
  /\ UNCHANGED <<memory, disk, unlocked, clients, contested, misplaced, mixed,
                 edits, faults>>

\* After the file of the credentials, the entry at the index found before and
\* the assignments are dropped.
Drop(r, a) ==
  LET l == Now.list IN
  /\ r.pc = "unlinkcreds"
  /\ misplaced' = (misplaced \/ (r.at \in DOMAIN l /\ l[r.at].id # r.id))
  /\ mixed' = (mixed \/ \E q \in BagToSet(pending) : q.pc = "dir" /\ q.list = {})
  /\ ChangeAndSave(KeepAssigned(OtherRequests(r)),
                   IF r.at \in DOMAIN l THEN RemoveAt(l, r.at) ELSE l, a)
  /\ UNCHANGED <<keystore, vault, clients, stored, contested, removed, edits>>

\* Mutant: the assignments stay.
DropWallet_KeepsAssignments(r) == Drop(r, Now.assigned)

DropWallet(r) == Drop(r, {t \in Now.assigned : t[2] # r.id})

-----------------------------------------------------------------------------
(* Other changes.                                                          *)

\* toggleTradingWallet and updateTradingWalletLabel: the list is saved.
ToggleTradingWallet(id) ==
  /\ Edit
  /\ id \in Listed(Now.list)
  /\ StartAndSave(pending, Now.list, Now.assigned)
  /\ UNCHANGED <<keystore, vault, clients, past>>

\* updateWalletBuilderCredentials: the file is written, then the list saved.
UpdateBuilderCredentials(id) ==
  /\ Edit
  /\ id \in Listed(Now.list)
  /\ NowIs(Now)
  /\ Starts([Request("newcreds") EXCEPT !.id = id])
  /\ UNCHANGED <<disk, keystore, vault, clients, past, faults>>

CredentialsUpdated(r) ==
  /\ r.pc = "newcreds"
  /\ ChangeAndSave(OtherRequests(r), Now.list, Now.assigned)
  /\ UNCHANGED <<keystore, vault, clients, past, edits>>

AddCopyAssignment(a, id) ==
  /\ Edit
  /\ id \in Listed(Now.list) /\ <<a, id>> \notin Now.assigned
  /\ StartAndSave(pending, Now.list, Now.assigned \union {<<a, id>>})
  /\ UNCHANGED <<keystore, vault, clients, past>>

RemoveCopyAssignment(a, id) ==
  /\ Edit
  /\ <<a, id>> \in Now.assigned
  /\ StartAndSave(KeepAssigned(pending), Now.list,
                  Now.assigned \ {<<a, id>>})
  /\ UNCHANGED <<keystore, vault, clients, past>>

-----------------------------------------------------------------------------
(* Keys and clients.                                                       *)

\* unlockWallets: the keystore files there are, in the order of their names.
\* (Without a key in .env, which would be added here as wallet `main'.)  Hosted,
\* nothing is decrypted.
Unlock ==
  /\ NowIs(Now)
  /\ Starts([Request("unlock") EXCEPT
               !.todo = IF Hosted THEN {} ELSE DOMAIN keystore])
  /\ UNCHANGED <<disk, keystore, vault, clients, past, edits, faults>>

\* One file after the other is read and decrypted.  A file that is gone, or a
\* wrong password, ends the request: what was decrypted stays.
UnlockFile(r) ==
  /\ r.pc = "unlock" /\ r.todo # {}
  /\ LET id == CHOOSE i \in r.todo : TRUE IN
     \/ /\ id \in DOMAIN keystore
        /\ signers' = With(signers, id, keystore[id])
        /\ Goes(r, [r EXCEPT !.todo = @ \ {id}])
     \/ UNCHANGED signers /\ Ends(r)
  /\ UNCHANGED <<memory, disk, keystore, unlocked, clients, past, edits, faults>>

\* The wallets' flags are refreshed from the credential files, and saved if one
\* has changed.
UnlockEnds(r) ==
  /\ r.pc = "unlock" /\ r.todo = {}
  /\ unlocked' = ~Hosted
  /\ \/ ChangeAndSave(OtherRequests(r), Now.list, Now.assigned)
     \/ Ends(r) /\ UNCHANGED <<memory, disk, faults>>
  /\ UNCHANGED <<keystore, signers, clients, past, edits>>

\* An order for a listed wallet, while the vault is unlocked: hosted, getSigner
\* decrypts a key that is not in memory.
CanSign(id) ==
  /\ id \in Listed(list)
  /\ Hosted \/ unlocked
  /\ id \in DOMAIN signers \/ (Hosted /\ id \in DOMAIN keystore)

\* getClobClientForTradingWallet without a cached client: the key is read, then
\* the client is initialised.
MakeClient(id) ==
  LET key == IF id \in DOMAIN signers THEN signers[id] ELSE keystore[id] IN
  /\ signers' = With(signers, id, key)
  /\ Starts([Request("client") EXCEPT !.id = id, !.key = key])

UseClient(id) ==
  /\ CanSign(id) /\ id \notin DOMAIN clients
  /\ MakeClient(id)
  /\ UNCHANGED <<memory, disk, keystore, unlocked, clients, past, edits, faults>>

ClientReady(r) ==
  /\ r.pc = "client"
  /\ clients' = With(clients, r.id, r.key)
  /\ Ends(r)
  /\ UNCHANGED <<memory, disk, keystore, vault, past, edits, faults>>

ClientFails(r) ==
  /\ r.pc = "client"
  /\ Ends(r)
  /\ UNCHANGED <<memory, disk, keystore, vault, clients, past, edits, faults>>

\* executeTrade after an invalid signature: a new client replaces the cached
\* one, unless the wallet has meanwhile gone, or is inactive.
EvictClient(id) ==
  /\ id \in DOMAIN clients
  /\ clients' = Without(clients, id)
  /\ \/ CanSign(id) /\ MakeClient(id)
     \/ UNCHANGED <<pending, signers>>
  /\ UNCHANGED <<memory, disk, keystore, unlocked, past, edits, faults>>

\* A crash, and the next start.
RestartWallets ==
  /\ Fault("crash")
  /\ known' = ~Hosted
  /\ list' = IF Hosted THEN <<>> ELSE disk.list
  /\ assigned' = IF Hosted THEN {} ELSE disk.assigned
  /\ signers' = Nothing /\ unlocked' = FALSE /\ clients' = Nothing
  /\ pending' = EmptyBag
  /\ UNCHANGED <<disk, keystore, past, edits>>

-----------------------------------------------------------------------------

Start ==
  \/ \E id \in Ids :
       \/ \E key \in PrivateKeys : AddTradingWallet(id, key)
       \/ RemoveTradingWallet(id) \/ ToggleTradingWallet(id)
       \/ UpdateBuilderCredentials(id)
       \/ \E a \in Addresses : AddCopyAssignment(a, id)
                               \/ RemoveCopyAssignment(a, id)
       \/ UseClient(id) \/ EvictClient(id)
  \/ OtherSetting \/ Reread \/ Unlock

GoOn(r) ==
  \/ KeystoreMissing(r) \/ KeystoreExists(r) \/ KeystoreWritten(r)
  \/ CredentialsWritten(r) \/ CredentialsUpdated(r)
  \/ UnlinkKeystore(r) \/ DropWallet(r)
  \/ SaveLoads(r) \/ SaveFormats(r) \/ SaveWrites(r) \/ WriteFails(r) \/ RereadEnds(r)
  \/ UnlockFile(r) \/ UnlockEnds(r) \/ ClientReady(r) \/ ClientFails(r)

WalletNext == Start \/ (\E r \in BagToSet(pending) : GoOn(r)) \/ RestartWallets

WalletSpec == WalletInit /\ [][WalletNext]_walletVars

-----------------------------------------------------------------------------
(* Properties.                                                             *)

\* A private key that was put into a keystore file stays there until its wallet
\* is removed: whatever the lists forget, by a failed save, a stale one or a
\* crash, no later add writes over it - unless two adds of one identifier
\* overlap (secureKeyManager.ts 177-186: asked, then written).
KeyKept ==
  \A s \in stored : \/ s.id \in contested
                    \/ s.id \in DOMAIN keystore /\ keystore[s.id] = s.key

\* Every copy assignment, in memory and in the file, is to a wallet that is
\* listed there, so that a detected trade has somewhere to go - unless a removal
\* took the wrong entry off the list (walletManager.ts 144-148: the index is
\* found before the files are removed, and used after), or changed the list in
\* place and replaced the assignments (148-151) while a save that had both waited
\* to write them.
Resolves(m) == \A t \in m.assigned : t[2] \in Listed(m.list)
AssignmentsResolve ==
  misplaced \/ mixed \/ (Resolves(Config(list, assigned)) /\ Resolves(disk))

\* The client in the cache signs for the wallet that is listed under its
\* identifier: no order is placed with another wallet's key - unless that wallet
\* was removed and added again, as nothing evicts its client
\* (clobClientFactory.ts 96-101), or two adds of it overlapped.
SignsForItself ==
  \A i \in DOMAIN list :
    LET w == list[i] IN
    w.id \in DOMAIN clients =>
      clients[w.id] = w.key \/ w.id \in removed \union contested
=============================================================================
