------------------------------- MODULE LinkStore -------------------------------
(***************************************************************************)
(* The files of a linked WhatsApp session (garraia-channels:               *)
(* whatsapp_linked/session.rs) under the two programs that write them: the *)
(* command of the operator (garraia-cli: whatsapp.rs, which pairs through  *)
(* runner.rs) and the supervisor of the gateway (serve of runner.rs,       *)
(* bootstrap/whatsapp_linked.rs).  Nothing excludes one from the other.    *)
(*                                                                         *)
(* A session and a key are numbers.  session.enc and session.enc.prev hold *)
(* a session sealed with a key; session.key is a key, and session.salt     *)
(* gives one with the passphrase of the vault, which is in the environment *)
(* of a program or not.  A save and a rename are atomic, as the code makes *)
(* them; a program may die between any two files it touches.  One command  *)
(* runs at a time.                                                         *)
(***************************************************************************)
EXTENDS Naturals

CONSTANTS
  MaxSession,  \* bound: devices ever linked
  MaxKey       \* bound: keys ever made

ASSUME StoreAssumption == MaxSession \in Nat /\ MaxKey \in Nat

VARIABLES
  live,     \* session.enc
  prev,     \* session.enc.prev
  keyfile,  \* the key in session.key; 0: no file
  salt,     \* the key session.salt gives; 0: no file
  enabled,  \* channels.whatsapp_linked.enabled
  cli,      \* the command
  gw,       \* the supervisor
  revoked,  \* sessions the server no longer accepts
  made,     \* sessions made so far
  minted,   \* keys made so far
  \* what the operator knows
  linked,   \* the session counted on; 0: none
  gone      \* sessions logged out

keys == <<keyfile, salt, minted>>
files == <<live, prev>>
world == <<revoked, made>>
history == <<linked, gone>>
vars == <<files, keys, enabled, cli, gw, world, history>>

Session == 0..MaxSession
Key == 0..MaxKey

(* A file that holds session s sealed with key k.                          *)
File == [s : Session, k : Key]
NoFile == [s |-> 0, k |-> 0]

(* A command: its key; whether the session in use is set aside and a guard *)
(* brings it back; whether one was loaded (had_existing); the session its  *)
(* bridge has, the last one the bridge handed over (latest_blob); the file *)
(* a logout comes to; whether the gateway has been down all along.         *)
Commands ==
  [pc : {"idle", "begun", "spawned", "validating", "qr", "connected", "saved",
         "dead", "deadSalt", "enable", "disable", "drop", "proved", "logout"},
   key : Key, relink : BOOLEAN, had : BOOLEAN, session : Session,
   blob : Session, todo : 0..4, alone : BOOLEAN]
NoCommand ==
  [pc |-> "idle", key |-> 0, relink |-> FALSE, had |-> FALSE, session |-> 0,
   blob |-> 0, todo |-> 0, alone |-> FALSE]

Supervisors ==
  [pc : {"off", "boot", "on", "serving", "purge", "disable"},
   key : Key, s : Session, todo : 0..4]
Down == [pc |-> "off", key |-> 0, s |-> 0, todo |-> 0]

Init ==
  /\ live = NoFile /\ prev = NoFile
  /\ keyfile = 0 /\ salt = 0 /\ minted = 0
  /\ enabled = FALSE
  /\ cli = NoCommand /\ gw = Down
  /\ revoked = {} /\ made = 0
  /\ linked = 0 /\ gone = {}

-------------------------------------------------------------------------------
(* SessionKey::resolve, with the passphrase or without: the key the        *)
(* directory has, or a new one.                                            *)
Resolves(pass, k) ==
  LET has == IF pass THEN salt ELSE keyfile IN
  \/ /\ has # 0 /\ k = has
     /\ UNCHANGED keys
  \/ /\ has = 0 /\ minted < MaxKey /\ k = minted + 1
     /\ minted' = k
     /\ IF pass THEN salt' = k /\ UNCHANGED keyfile
                ELSE keyfile' = k /\ UNCHANGED salt

(* archive: session.enc, if there is one, takes the place of .prev         *)
Archive ==
  IF live = NoFile THEN UNCHANGED files ELSE prev' = live /\ live' = NoFile

(* restore_archive: never over a session in use                            *)
Restorable == prev # NoFile /\ live = NoFile
RestoreArchive ==
  IF Restorable THEN live' = prev /\ prev' = NoFile ELSE UNCHANGED files

(* A slip to check against: a purge that leaves session.key.               *)
ShredButKey(i) ==
  /\ live' = IF i = 1 THEN NoFile ELSE live
  /\ prev' = IF i = 2 THEN NoFile ELSE prev
  /\ salt' = IF i = 4 THEN 0 ELSE salt
  /\ UNCHANGED <<keyfile, minted>>

(* purge, one file at a time                                               *)
Shred(i) ==
  /\ live' = IF i = 1 THEN NoFile ELSE live
  /\ prev' = IF i = 2 THEN NoFile ELSE prev
  /\ keyfile' = IF i = 3 THEN 0 ELSE keyfile
  /\ salt' = IF i = 4 THEN 0 ELSE salt
  /\ UNCHANGED minted

-------------------------------------------------------------------------------
(* A command that has its key.                                             *)
Started(pc, k, relink) ==
  [pc |-> pc, key |-> k, relink |-> relink, had |-> FALSE, session |-> 0,
   blob |-> 0, todo |-> 0, alone |-> (gw.pc = "off")]

(* garra whatsapp link: the key, and the answer to "re-link?"              *)
LinkBegin(pass, relink) ==
  /\ cli = NoCommand
  /\ relink => live # NoFile
  /\ \E k \in Key :
       /\ Resolves(pass, k)
       /\ cli' = Started("begun", k, relink)
  /\ UNCHANGED <<files, enabled, gw, world, history>>

(* link_paired: the guard is made, and it archives.                        *)
SetAside ==
  /\ cli.pc = "begun"
  /\ IF cli.relink THEN Archive ELSE UNCHANGED files
  /\ cli' = [cli EXCEPT !.pc = "spawned"]
  /\ UNCHANGED <<keys, enabled, gw, world, history>>

(* pair: the disk decides where it starts.  What the key does not open is  *)
(* archived, with no guard, and the pairing is a new one.                  *)
Open ==
  /\ cli.pc = "spawned"
  /\ IF live # NoFile /\ live.k = cli.key
       THEN /\ cli' = [cli EXCEPT !.pc = "validating", !.had = TRUE, !.session = live.s]
            /\ UNCHANGED files
       ELSE /\ cli' = [cli EXCEPT !.pc = "qr"]
            /\ Archive
  /\ UNCHANGED <<keys, enabled, gw, world, history>>

(* A QR while a session is validated: it is archived, and the bridge       *)
(* starts over.                                                            *)
ShowQr ==
  /\ cli.pc = "validating"
  /\ Archive
  /\ cli' = [cli EXCEPT !.pc = "qr", !.session = 0]
  /\ UNCHANGED <<keys, enabled, gw, world, history>>

(* The phone reads the QR.                                                 *)
Scan ==
  /\ cli.pc = "qr" /\ cli.session = 0 /\ made < MaxSession
  /\ made' = made + 1
  /\ cli' = [cli EXCEPT !.session = made']
  /\ UNCHANGED <<files, keys, enabled, gw, revoked, history>>

Connect ==
  /\ cli.pc \in {"validating", "qr"}
  /\ cli.session # 0 /\ cli.session \notin revoked
  /\ cli' = [cli EXCEPT !.pc = "connected"]
  /\ UNCHANGED <<files, keys, enabled, gw, world, history>>

Pairing == {"validating", "qr", "connected"}

(* session_update                                                          *)
Update ==
  /\ cli.pc \in Pairing /\ cli.session # 0
  /\ cli' = [cli EXCEPT !.blob = cli.session]
  /\ UNCHANGED <<files, keys, enabled, gw, world, history>>

(* The bridge is gone and the pairing holds: the new session first.        *)
Save ==
  /\ cli.pc = "connected" /\ cli.blob # 0
  /\ live' = [s |-> cli.blob, k |-> cli.key]
  /\ linked' = IF cli.alone THEN cli.blob ELSE 0
  /\ cli' = [cli EXCEPT !.pc = "saved"]
  /\ UNCHANGED <<prev, keys, enabled, gw, world, gone>>

DiscardArchive ==
  /\ cli.pc = "saved"
  /\ prev' = NoFile
  /\ cli' = [cli EXCEPT !.pc = "enable"]
  /\ UNCHANGED <<live, keys, enabled, gw, world, history>>

(* Connected, nothing handed over, and a session was loaded: that one.     *)
KeepSession ==
  /\ cli.pc = "connected" /\ cli.blob = 0 /\ cli.had
  /\ cli' = [cli EXCEPT !.pc = "enable"]
  /\ UNCHANGED <<files, keys, enabled, gw, world, history>>

(* Cancelled, no QR was read, no session came, the bridge failed, or a     *)
(* file could not be written or removed: nothing more is done.             *)
Fails ==
  /\ cli.pc \in Pairing \cup {"spawned", "saved", "dead", "deadSalt", "enable", "disable"}
  /\ cli' = [cli EXCEPT !.pc = "drop"]
  /\ UNCHANGED <<files, keys, enabled, gw, world, history>>

(* A slip to check against: what was archived is shredded as well.         *)
PairDeadPurging ==
  /\ cli.pc \in Pairing
  /\ cli.session = 0 \/ cli.session \in revoked
  /\ live' = NoFile /\ prev' = NoFile
  /\ linked' = IF linked = cli.session THEN 0 ELSE linked
  /\ cli' = [cli EXCEPT !.pc = "dead"]
  /\ UNCHANGED <<keys, enabled, gw, world, gone>>

(* The server refused the session: discard_dead_session, which shreds the  *)
(* session in use, and the keys only when nothing is archived.             *)
PairDead ==
  /\ cli.pc \in Pairing
  /\ cli.session = 0 \/ cli.session \in revoked
  /\ live' = NoFile
  /\ linked' = IF linked = cli.session THEN 0 ELSE linked
  /\ cli' = [cli EXCEPT !.pc = "dead"]
  /\ UNCHANGED <<prev, keys, enabled, gw, world, gone>>

DiscardKey ==
  /\ cli.pc = "dead"
  /\ IF prev # NoFile
       THEN cli' = [cli EXCEPT !.pc = "disable"] /\ UNCHANGED keyfile
       ELSE cli' = [cli EXCEPT !.pc = "deadSalt"] /\ keyfile' = 0
  /\ UNCHANGED <<files, salt, minted, enabled, gw, world, history>>

DiscardSalt ==
  /\ cli.pc = "deadSalt"
  /\ salt' = 0
  /\ cli' = [cli EXCEPT !.pc = "disable"]
  /\ UNCHANGED <<files, keyfile, minted, enabled, gw, world, history>>

(* enable_channel, disable_channel: a pairing, a restore and a logout end  *)
(* with the configuration.                                                 *)
Configure ==
  /\ cli.pc \in {"enable", "disable"}
  /\ enabled' = (cli.pc = "enable")
  /\ cli' = [cli EXCEPT !.pc = "drop"]
  /\ UNCHANGED <<files, keys, gw, world, history>>

(* The command returns, and drops its guard if it made one.                *)
Drop ==
  /\ cli.pc = "drop"
  /\ IF cli.relink THEN RestoreArchive ELSE UNCHANGED files
  /\ cli' = NoCommand
  /\ UNCHANGED <<keys, enabled, gw, world, history>>

(* garra whatsapp restore: it is proved to open before it is moved.        *)
RestoreBegin(pass) ==
  /\ cli = NoCommand /\ Restorable
  /\ \E k \in Key :
       /\ Resolves(pass, k)
       /\ cli' = IF prev.k = k THEN Started("proved", k, FALSE) ELSE NoCommand
  /\ UNCHANGED <<files, enabled, gw, world, history>>

RestoreMove ==
  /\ cli.pc = "proved"
  /\ RestoreArchive
  /\ cli' = IF Restorable THEN [cli EXCEPT !.pc = "enable"] ELSE NoCommand
  /\ linked' = IF Restorable /\ cli.alone THEN prev.s ELSE linked
  /\ UNCHANGED <<keys, enabled, gw, world, gone>>

(* garra whatsapp logout                                                   *)
LogoutBegin ==
  /\ cli = NoCommand
  /\ live # NoFile \/ prev # NoFile
  /\ cli' = [NoCommand EXCEPT !.pc = "logout", !.todo = 1]
  /\ linked' = 0
  /\ UNCHANGED <<files, keys, enabled, gw, world, gone>>

LogoutStep ==
  /\ cli.pc = "logout"
  /\ Shred(cli.todo)
  /\ IF cli.todo < 4
       THEN cli' = [cli EXCEPT !.todo = @ + 1] /\ UNCHANGED gone
       ELSE cli' = [NoCommand EXCEPT !.pc = "disable"] /\ gone' = 1..made
  /\ UNCHANGED <<enabled, gw, world, linked>>

(* The command is killed, guard and all, or the operator declines before   *)
(* anything was set aside.                                                 *)
Dies ==
  /\ cli # NoCommand
  /\ cli' = NoCommand
  /\ UNCHANGED <<files, keys, enabled, gw, world, history>>

-------------------------------------------------------------------------------
(* deve_supervisionar: the channel is on, and there is a session.          *)
Boot ==
  /\ gw = Down /\ enabled /\ live # NoFile
  /\ gw' = [Down EXCEPT !.pc = "boot"]
  /\ cli' = [cli EXCEPT !.alone = FALSE]
  /\ UNCHANGED <<files, keys, enabled, world, history>>

BootKey(pass) ==
  /\ gw.pc = "boot"
  /\ \E k \in Key : Resolves(pass, k) /\ gw' = [gw EXCEPT !.pc = "on", !.key = k]
  /\ UNCHANGED <<files, enabled, cli, world, history>>

(* serve, once more round its loop.  A session that does not open is one   *)
(* more failure to reconnect: it stays where it is.                        *)
Serve ==
  /\ gw.pc = "on"
  /\ live = NoFile \/ live.k = gw.key
  /\ gw' = IF live = NoFile THEN [gw EXCEPT !.pc = "disable"]
                            ELSE [gw EXCEPT !.pc = "serving", !.s = live.s]
  /\ UNCHANGED <<files, keys, enabled, cli, world, history>>

(* persist: a session_update of the bridge that serves                     *)
Persist ==
  /\ gw.pc = "serving"
  /\ live' = [s |-> gw.s, k |-> gw.key]
  /\ UNCHANGED <<prev, keys, enabled, cli, gw, world, history>>

(* The bridge falls, and serve will try again.                             *)
Fall ==
  /\ gw.pc = "serving"
  /\ gw' = [gw EXCEPT !.pc = "on", !.s = 0]
  /\ UNCHANGED <<files, keys, enabled, cli, world, history>>

(* The server says the session is dead: purge, and the channel off.        *)
ServeDead ==
  /\ gw.pc = "serving" /\ gw.s \in revoked
  /\ gw' = [gw EXCEPT !.pc = "purge", !.todo = 1]
  /\ linked' = IF linked = gw.s THEN 0 ELSE linked
  /\ UNCHANGED <<files, keys, enabled, cli, world, gone>>

ServePurge ==
  /\ gw.pc = "purge"
  /\ Shred(gw.todo)
  /\ gw' = IF gw.todo < 4 THEN [gw EXCEPT !.todo = @ + 1]
                          ELSE [gw EXCEPT !.pc = "disable", !.todo = 0]
  /\ UNCHANGED <<enabled, cli, world, history>>

SwitchOff ==
  /\ gw.pc = "disable"
  /\ enabled' = FALSE /\ gw' = Down
  /\ UNCHANGED <<files, keys, cli, world, history>>

(* The gateway stops, or dies; or another device took over.                *)
Stop ==
  /\ gw # Down
  /\ gw' = Down
  /\ UNCHANGED <<files, keys, enabled, cli, world, history>>

(* The device is removed on the phone, or the server refuses it.           *)
Revoke(s) ==
  /\ s \notin revoked
  /\ revoked' = revoked \cup {s}
  /\ UNCHANGED <<files, keys, enabled, cli, gw, made, history>>

-------------------------------------------------------------------------------
Command ==
  \/ \E pass, relink \in BOOLEAN : LinkBegin(pass, relink)
  \/ SetAside \/ Open \/ ShowQr \/ Scan \/ Connect \/ Update
  \/ Save \/ DiscardArchive \/ KeepSession
  \/ Fails \/ PairDead \/ DiscardKey \/ DiscardSalt
  \/ Configure \/ Drop
  \/ \E pass \in BOOLEAN : RestoreBegin(pass)
  \/ RestoreMove
  \/ LogoutBegin \/ LogoutStep
  \/ Dies

Gateway ==
  \/ Boot
  \/ \E pass \in BOOLEAN : BootKey(pass)
  \/ Serve \/ Persist \/ Fall
  \/ ServeDead \/ ServePurge \/ SwitchOff
  \/ Stop

Next ==
  \/ Command
  \/ Gateway
  \/ \E s \in 1..made : Revoke(s)

Spec == Init /\ [][Next]_vars

-------------------------------------------------------------------------------
(* Sessions and keys are those made so far; a file is sealed with a key.   *)
TypeOK ==
  /\ live \in File /\ prev \in File
  /\ keyfile \in 0..minted /\ salt \in 0..minted
  /\ enabled \in BOOLEAN
  /\ cli \in Commands /\ gw \in Supervisors
  /\ made \in Session /\ minted \in Key
  /\ revoked \subseteq 1..made /\ gone \subseteq 1..made
  /\ linked \in 0..made

Readable(f) == f # NoFile /\ f.k \in {keyfile, salt}

(* A session linked or restored with the gateway down can be opened from   *)
(* its file or from the archive, with a key that is still there, until the *)
(* operator replaces it or logs out or the server declares it dead:        *)
(* whatever commands fail, are cancelled or killed at any step since then, *)
(* with the passphrase or without, and whatever a gateway that serves      *)
(* meanwhile does.                                                         *)
LinkedIsRecoverable ==
  linked # 0 => \E f \in {live, prev} : f.s = linked /\ Readable(f)

(* A session logged out never opens again, not even when a gateway that    *)
(* was still serving it writes it back during the logout or after.         *)
LoggedOutStaysOut ==
  \A f \in {live, prev} : f.s \in gone => ~Readable(f)

===============================================================================
