---------------------------- MODULE Registration ----------------------------
(***************************************************************************)
(* register.rs and config.rs: the commands that register a user and a      *)
(* node, link a node, log out and start, all around one configuration      *)
(* file.  Each command is a process of its own, may be killed at any step  *)
(* and may run beside another; a request or its answer may be lost.        *)
(* Every await and every system call that writes ends a step.              *)
(***************************************************************************)
EXTENDS FiniteSets

CONSTANTS
  Procs,    \* bound: command line processes at a time
  Wallets,  \* valid addresses, upper and lower case being the same
  Users,    \* user ids; a wallet has at most one with the server
  Nodes,    \* node ids
  None,
  Keen,       \* a process and a wallet, for the fairness
  KeenWallet

ASSUME RegistrationAssumption ==
  /\ None \notin Procs \cup Wallets \cup Users \cup Nodes
  /\ Keen \in Procs /\ KeenWallet \in Wallets

VARIABLES
  file,      \* absent, empty, garbled, or a readable config
  saved,     \* its content if it is readable
  pc,        \* where each process is
  hand,      \* the Config in the memory of each process
  unlinked,  \* the processes whose open file was removed
  walletOf,  \* server: the wallet of a registered user
  ownerOf    \* server: the user of a registered node

fileVars == <<file, saved, unlinked>>
serverVars == <<walletOf, ownerOf>>
vars == <<fileVars, pc, hand, serverVars>>

\* given is history: the node was given by the user, not by the server.
Config == [user : Users \cup {None}, wallet : Wallets \cup {None},
           node : Nodes \cup {None}, given : BOOLEAN]

Blank == [user |-> None, wallet |-> None, node |-> None, given |-> FALSE]

Pc == {"idle", "get_user", "post_user", "post_node", "save", "write", "get_node",
       "running"}

VariableTypes ==
  /\ file \in {"absent", "empty", "garbled", "config"}
  /\ saved \in Config
  /\ pc \in [Procs -> Pc]
  /\ hand \in [Procs -> Config]
  /\ unlinked \subseteq Procs
  /\ walletOf \in [Users -> Wallets \cup {None}]
  /\ ownerOf \in [Nodes -> Users \cup {None}]

\* What is about to be saved is whole: no config is written without its user.
TypeOK ==
  /\ VariableTypes
  /\ \A p \in Procs : pc[p] \in {"save", "write"} =>
       hand[p].user \in Users /\ hand[p].wallet \in Wallets

\* The config of an older version: a node and nothing else.
Legacy == {[Blank EXCEPT !.node = n, !.given = TRUE] : n \in Nodes}

Init ==
  /\ \/ file = "absent" /\ saved = Blank
     \/ file = "config" /\ saved \in Legacy
  /\ pc = [p \in Procs |-> "idle"]
  /\ hand = [p \in Procs |-> Blank]
  /\ unlinked = {}
  /\ walletOf = [u \in Users |-> None]
  /\ ownerOf = [n \in Nodes |-> None]

Registered(wallet) == \E u \in Users : walletOf[u] = wallet

\* The process goes on with this in its memory.
Goto(p, where, config) ==
  /\ pc' = [pc EXCEPT ![p] = where]
  /\ hand' = [hand EXCEPT ![p] = config]

-----------------------------------------------------------------------------
(***************************************************************************)
(* register-user                                                           *)
(***************************************************************************)

\* A fault: a file that cannot be read ends the command.
RegisterUserReads(p, wallet) ==
  /\ pc[p] = "idle"
  /\ file \in {"absent", "config"}
  /\ ~ (file = "config" /\ saved.wallet = wallet)
  /\ Goto(p, "get_user", [Blank EXCEPT !.wallet = wallet])
  /\ UNCHANGED <<fileVars, serverVars>>

\* Nothing is done when the file has this wallet and a user.
RegisterUser(p, wallet) ==
  /\ pc[p] = "idle"
  /\ ~ (file = "config" /\ saved.wallet = wallet /\ saved.user # None)
  /\ Goto(p, "get_user", [Blank EXCEPT !.wallet = wallet])
  /\ UNCHANGED <<fileVars, serverVars>>

\* A fault: the user of the answer is forgotten.
UserFoundForgotten(p, user) ==
  /\ pc[p] = "get_user"
  /\ walletOf[user] = hand[p].wallet
  /\ Goto(p, "save", hand[p])
  /\ UNCHANGED <<fileVars, serverVars>>

UserFound(p, user) ==
  /\ pc[p] = "get_user"
  /\ walletOf[user] = hand[p].wallet
  /\ Goto(p, "save", [hand[p] EXCEPT !.user = user])
  /\ UNCHANGED <<fileVars, serverVars>>

\* The ids a new uuid may be: one nobody has.
Unused == {u \in Users : walletOf[u] = None /\ \A p \in Procs : hand[p].user # u}

\* Any error, that of a lost answer too, means a new user with a new uuid.
UserNotFound(p) ==
  /\ pc[p] = "get_user"
  /\ Unused # {}
  /\ Goto(p, "post_user", [hand[p] EXCEPT !.user = CHOOSE u \in Unused : TRUE])
  /\ UNCHANGED <<fileVars, serverVars>>

\* A fault: the answer to the registration is not looked at.
PostUserUnchecked(p) ==
  /\ pc[p] = "post_user"
  /\ \/ /\ ~Registered(hand[p].wallet)
        /\ walletOf' = [walletOf EXCEPT ![hand[p].user] = hand[p].wallet]
     \/ UNCHANGED walletOf
  /\ Goto(p, "save", hand[p])
  /\ UNCHANGED <<fileVars, ownerOf>>

\* The server takes the user and the client hears of it or not; or the request
\* is lost, or refused.
PostUser(p) ==
  /\ pc[p] = "post_user"
  /\ \/ /\ ~Registered(hand[p].wallet)
        /\ walletOf' = [walletOf EXCEPT ![hand[p].user] = hand[p].wallet]
        /\ Goto(p, "save", hand[p]) \/ Goto(p, "idle", Blank)
     \/ Goto(p, "idle", Blank) /\ UNCHANGED walletOf
  /\ UNCHANGED <<fileVars, ownerOf>>

-----------------------------------------------------------------------------
(***************************************************************************)
(* register-node                                                           *)
(***************************************************************************)

RegisterNode(p) ==
  /\ pc[p] = "idle"
  /\ file = "config" /\ saved.user # None
  /\ Goto(p, "post_node", saved)
  /\ UNCHANGED <<fileVars, serverVars>>

PostNode(p, node) ==
  /\ pc[p] = "post_node"
  /\ \/ /\ ownerOf[node] = None
        /\ ownerOf' = [ownerOf EXCEPT ![node] = hand[p].user]
        /\ \/ Goto(p, "save", [hand[p] EXCEPT !.node = node, !.given = FALSE])
           \/ Goto(p, "idle", Blank)
     \/ Goto(p, "idle", Blank) /\ UNCHANGED ownerOf
  /\ UNCHANGED <<fileVars, walletOf>>

\* register-node --node-id: the server is not asked.
LinkNode(p, node) ==
  /\ pc[p] = "idle"
  /\ file = "config" /\ saved.user # None
  /\ Goto(p, "save", [saved EXCEPT !.node = node, !.given = TRUE])
  /\ UNCHANGED <<fileVars, serverVars>>

-----------------------------------------------------------------------------
(***************************************************************************)
(* Config::save: open with truncation, then write                          *)
(***************************************************************************)

\* A fault: the file is opened before the server has answered.
TruncateEarly(p) ==
  /\ pc[p] \in {"post_node", "save"}
  /\ file' = "empty" /\ saved' = Blank
  /\ Goto(p, IF pc[p] = "save" THEN "write" ELSE "post_node", hand[p])
  /\ UNCHANGED <<unlinked, serverVars>>

Truncate(p) ==
  /\ pc[p] = "save"
  /\ file' = "empty" /\ saved' = Blank
  /\ Goto(p, "write", hand[p])
  /\ UNCHANGED <<unlinked, serverVars>>

\* A fault: the node is merged into what the file holds by then.
Merged(config) ==
  IF file = "config" /\ config.node # None
  THEN [saved EXCEPT !.node = config.node, !.given = config.given]
  ELSE config

Content(config) == config

\* What another process wrote since the truncation is written over from its
\* start, and the end of a longer text remains: a config with a node is longer
\* than one without, and node ids differ in length.
Covers(config) ==
  file = "garbled" \/ (file = "config" /\ saved.node # None) => config.node # None

EndRemains(config) ==
  file = "garbled" \/ (file = "config" /\ saved.node \notin {None, config.node})

WriteFile(p) ==
  /\ pc[p] = "write"
  /\ \/ /\ p \notin unlinked
        /\ Covers(hand[p])
        /\ file' = "config" /\ saved' = Content(hand[p])
     \/ /\ p \notin unlinked
        /\ EndRemains(hand[p])
        /\ file' = "garbled" /\ saved' = Blank
     \/ p \in unlinked /\ UNCHANGED <<file, saved>>
  /\ Goto(p, "idle", Blank)
  /\ unlinked' = unlinked \ {p}
  /\ UNCHANGED serverVars

\* logout: a process that has the file open writes into what nobody reads.
Logout(p) ==
  /\ pc[p] = "idle"
  /\ file # "absent"
  /\ file' = "absent" /\ saved' = Blank
  /\ unlinked' = unlinked \cup {q \in Procs : pc[q] = "write"}
  /\ UNCHANGED <<pc, hand, serverVars>>

-----------------------------------------------------------------------------
(***************************************************************************)
(* start: Config::resolve                                                  *)
(***************************************************************************)

Start(p) ==
  /\ pc[p] = "idle"
  /\ file = "config" /\ saved.user # None /\ saved.node # None
  /\ Goto(p, "get_node", saved)
  /\ UNCHANGED <<fileVars, serverVars>>

\* start --node-id works without a file, for an anonymous user.
StartNode(p, node) ==
  /\ pc[p] = "idle"
  /\ Goto(p, "get_node", [Blank EXCEPT !.node = node])
  /\ UNCHANGED <<fileVars, serverVars>>

\* A fault: the wallet of the file is good enough, if it has one.
NodeFoundKeepsWallet(p) ==
  /\ pc[p] = "get_node"
  /\ ownerOf[hand[p].node] # None
  /\ Goto(p, "running", IF hand[p].wallet # None THEN hand[p]
                        ELSE [hand[p] EXCEPT !.wallet = walletOf[ownerOf[hand[p].node]]])
  /\ UNCHANGED <<fileVars, serverVars>>

NodeFound(p) ==
  /\ pc[p] = "get_node"
  /\ ownerOf[hand[p].node] # None
  /\ Goto(p, "running", [hand[p] EXCEPT !.wallet = walletOf[ownerOf[hand[p].node]]])
  /\ UNCHANGED <<fileVars, serverVars>>

\* An error of get_node, the end of a session, a kill, or a failed system call:
\* nothing is cleaned up.  What a partial write leaves is as bad as nothing.
Die(p) ==
  /\ pc[p] # "idle"
  /\ Goto(p, "idle", Blank)
  /\ unlinked' = unlinked \ {p}
  /\ UNCHANGED <<file, saved, serverVars>>

-----------------------------------------------------------------------------

Command(p) ==
  \/ \E w \in Wallets : RegisterUser(p, w)
  \/ RegisterNode(p)
  \/ \E n \in Nodes : LinkNode(p, n)
  \/ Logout(p)
  \/ Start(p)
  \/ \E n \in Nodes : StartNode(p, n)

GoOn(p) ==
  \/ \E u \in Users : UserFound(p, u)
  \/ UserNotFound(p)
  \/ PostUser(p)
  \/ \E n \in Nodes : PostNode(p, n)
  \/ Truncate(p)
  \/ WriteFile(p)
  \/ NodeFound(p)

Next == \E p \in Procs : Command(p) \/ GoOn(p) \/ Die(p)

Spec == Init /\ [][Next]_vars

\* Somebody does not give up: each command ends, register-user is run again and
\* again, and no step of it fails each time it is tried.
Insists(p, wallet) ==
  /\ WF_vars(GoOn(p) \/ Die(p))
  /\ SF_vars(RegisterUser(p, wallet))
  /\ SF_vars(\E u \in Users : UserFound(p, u))
  /\ SF_vars(UserNotFound(p))
  /\ SF_vars(PostUser(p) /\ pc'[p] = "save")
  /\ SF_vars(Truncate(p))
  /\ SF_vars(WriteFile(p))

FairSpec == Spec /\ Insists(Keen, KeenWallet)

-----------------------------------------------------------------------------
(***************************************************************************)
(* Properties                                                              *)
(***************************************************************************)

\* Whatever is killed, lost or run at the same time, a config that can be read
\* is what an older version left, or names a user the server knows, with the
\* wallet it has there.
SavedUserRegistered ==
  file = "config" /\ saved \notin Legacy =>
    saved.user \in Users /\ walletOf[saved.user] = saved.wallet

\* The node of a config belongs to the user of the config, or that user gave it:
\* two commands at a time never mix one's user with the other's node.
NodeOfUser ==
  file = "config" /\ saved.node # None =>
    ownerOf[saved.node] = saved.user \/ saved.given

\* A session runs for a registered node, under the wallet of its owner, whoever
\* the file says owns it; and that is the user of the file, or the user gave it.
SessionOfOwner ==
  \A p \in Procs : pc[p] = "running" =>
    /\ ownerOf[hand[p].node] # None
    /\ hand[p].wallet = walletOf[ownerOf[hand[p].node]]
    /\ hand[p].user # None =>
         ownerOf[hand[p].node] = hand[p].user \/ hand[p].given

\* Old content goes only when the server has answered for what replaces it: a
\* command killed, refused or unanswered before that leaves the file as it was.
OldFileKept ==
  [][file = "config" /\ file' = "empty" =>
       \E p \in Procs :
         /\ pc[p] = "save" /\ pc'[p] = "write"
         /\ walletOf[hand[p].user] = hand[p].wallet
         /\ hand[p].node # None => ownerOf[hand[p].node] = hand[p].user \/ hand[p].given
    ]_vars

\* A file left unreadable by a kill in the middle of a write is put right by
\* registering the user again, or removed.
FileRepaired == file \in {"empty", "garbled"} ~> file \in {"config", "absent"}
=============================================================================
