------------------------- MODULE RegistrationProofs -------------------------
(***************************************************************************)
(* The safety properties of the registration, for any processes, wallets,  *)
(* users and nodes.  What is saved is what a process has in its hand, so   *)
(* the invariant says what each hand may hold at each await; it stays true *)
(* while other processes run because the server only ever learns more.     *)
(***************************************************************************)
EXTENDS Registration, TLAPS

\* The server knows the user of a config, and the node is that user's.
Backed(config, wallets, owners) ==
  /\ config.user \in Users
  /\ config.wallet \in Wallets
  /\ wallets[config.user] = config.wallet
  /\ config.node # None => owners[config.node] = config.user \/ config.given

\* A config to run a node with.
Runnable(config, owners) ==
  /\ config.node \in Nodes
  /\ config.user # None => owners[config.node] = config.user \/ config.given

\* What a process may hold at each of its awaits.
HandOK(where, config, wallets, owners) ==
  /\ where \in {"save", "write", "post_node"} => Backed(config, wallets, owners)
  /\ where \in {"get_user", "post_user"} => config.wallet \in Wallets /\ config.node = None
  /\ where = "post_user" => config.user \in Users /\ wallets[config.user] = None
  /\ where \in {"get_node", "running"} => Runnable(config, owners)
  /\ where = "running" =>
       /\ owners[config.node] \in Users
       /\ config.wallet = wallets[owners[config.node]]

HandsOK == \A p \in Procs : HandOK(pc[p], hand[p], walletOf, ownerOf)

\* No two processes register the same new user.
NewUsersDiffer ==
  \A p, q \in Procs :
    p # q /\ pc[p] = "post_user" /\ pc[q] = "post_user" => hand[p].user # hand[q].user

FileOK == file = "config" => saved \in Legacy \/ Backed(saved, walletOf, ownerOf)

\* The owner of a node is registered.
ServerOK == \A n \in Nodes : ownerOf[n] # None => walletOf[ownerOf[n]] # None

Inv == VariableTypes /\ FileOK /\ ServerOK /\ NewUsersDiffer /\ HandsOK

-----------------------------------------------------------------------------

\* What the server knows it keeps.
Learns(wallets, owners, moreWallets, moreOwners) ==
  /\ \A u \in Users : wallets[u] # None => moreWallets[u] = wallets[u]
  /\ \A n \in Nodes : owners[n] # None => moreOwners[n] = owners[n]

LEMMA BackedStays ==
  ASSUME NEW w1, NEW o1, NEW w2, NEW o2, Learns(w1, o1, w2, o2),
         NEW config \in Config, Backed(config, w1, o1)
  PROVE  Backed(config, w2, o2)
<1>1. w2[config.user] = config.wallet
  BY RegistrationAssumption DEF Learns, Backed
<1>2. config.node # None => config.node \in Nodes
  BY DEF Config
<1>3. config.node # None => o2[config.node] = config.user \/ config.given
  BY <1>2, RegistrationAssumption DEF Learns, Backed
<1> QED
  BY <1>1, <1>3 DEF Backed

LEMMA RunnableStays ==
  ASSUME NEW w1, NEW o1, NEW w2, NEW o2, Learns(w1, o1, w2, o2),
         NEW config \in Config, Runnable(config, o1)
  PROVE  Runnable(config, o2)
BY RegistrationAssumption DEF Learns, Runnable, Config

\* What is true of a hand stays true while the server learns, if nobody else
\* registers the user it is about to register.
LEMMA HandStays ==
  ASSUME NEW w1, NEW o1, NEW w2, NEW o2, Learns(w1, o1, w2, o2),
         \A n \in Nodes : o1[n] # None => w1[o1[n]] # None,
         NEW where, NEW config \in Config, HandOK(where, config, w1, o1),
         where = "post_user" => w2[config.user] = w1[config.user]
  PROVE  HandOK(where, config, w2, o2)
<1>1. where \in {"save", "write", "post_node"} => Backed(config, w2, o2)
  BY BackedStays DEF HandOK
<1>2. where \in {"get_node", "running"} => Runnable(config, o2)
  BY RunnableStays DEF HandOK
<1>3. ASSUME where = "running"
      PROVE  o2[config.node] \in Users /\ config.wallet = w2[o2[config.node]]
  <2>1. config.node \in Nodes /\ o1[config.node] \in Users
    BY <1>3 DEF HandOK, Runnable
  <2>2. config.wallet = w1[o1[config.node]]
    BY <1>3 DEF HandOK
  <2>3. o2[config.node] = o1[config.node]
    BY <2>1, RegistrationAssumption DEF Learns
  <2>4. w2[o1[config.node]] = w1[o1[config.node]]
    BY <2>1, RegistrationAssumption DEF Learns
  <2> QED
    BY <2>1, <2>2, <2>3, <2>4
<1> QED
  BY <1>1, <1>2, <1>3 DEF HandOK

\* One process takes a step, which the server may learn from.
LEMMA ProcessStep ==
  ASSUME Inv, Learns(walletOf, ownerOf, walletOf', ownerOf'), NEW p \in Procs,
         NEW where \in Pc, NEW config \in Config, Goto(p, where, config),
         HandOK(where, config, walletOf', ownerOf'),
         FileOK', VariableTypes', ServerOK',
         where = "post_user" => \A q \in Procs : hand[q].user # config.user,
         \A q \in Procs \ {p} :
           pc[q] = "post_user" => walletOf'[hand[q].user] = walletOf[hand[q].user]
  PROVE  Inv'
<1>1. /\ pc'[p] = where /\ hand'[p] = config
      /\ \A q \in Procs \ {p} : pc'[q] = pc[q] /\ hand'[q] = hand[q]
  BY DEF Goto, Inv, VariableTypes
<1>2. HandsOK'
  <2> SUFFICES ASSUME NEW q \in Procs \ {p}
               PROVE  HandOK(pc[q], hand[q], walletOf', ownerOf')
    BY <1>1 DEF HandsOK
  <2>1. hand[q] \in Config /\ HandOK(pc[q], hand[q], walletOf, ownerOf)
    BY DEF Inv, VariableTypes, HandsOK
  <2>2. \A n \in Nodes : ownerOf[n] # None => walletOf[ownerOf[n]] # None
    BY DEF Inv, ServerOK
  <2> QED
    BY <2>1, <2>2, HandStays
<1>3. NewUsersDiffer'
  BY <1>1 DEF NewUsersDiffer, Inv
<1> QED
  BY <1>2, <1>3 DEF Inv

\* One process takes a step and the server learns nothing.
LEMMA LocalStep ==
  ASSUME Inv, UNCHANGED serverVars, NEW p \in Procs,
         NEW where \in Pc, NEW config \in Config, Goto(p, where, config),
         HandOK(where, config, walletOf, ownerOf), FileOK',
         file' \in {"absent", "empty", "garbled", "config"}, saved' \in Config,
         unlinked' \subseteq Procs,
         where = "post_user" => \A q \in Procs : hand[q].user # config.user
  PROVE  Inv'
<1>1. walletOf' = walletOf /\ ownerOf' = ownerOf
  BY DEF serverVars
<1>2. Learns(walletOf, ownerOf, walletOf', ownerOf')
  BY <1>1 DEF Learns
<1>3. VariableTypes'
  BY <1>1 DEF Inv, VariableTypes, Goto
<1>4. ServerOK'
  BY <1>1 DEF Inv, ServerOK
<1> QED
  BY <1>1, <1>2, <1>3, <1>4, ProcessStep

\* The same for a step that leaves the file alone.
LEMMA QuietStep ==
  ASSUME Inv, UNCHANGED <<fileVars, serverVars>>, NEW p \in Procs,
         NEW where \in Pc, NEW config \in Config, Goto(p, where, config),
         HandOK(where, config, walletOf, ownerOf),
         where = "post_user" => \A q \in Procs : hand[q].user # config.user
  PROVE  Inv'
<1>1. FileOK'
  BY DEF Inv, FileOK, fileVars, serverVars
<1>2. /\ file' \in {"absent", "empty", "garbled", "config"} /\ saved' \in Config
      /\ unlinked' \subseteq Procs
  BY DEF Inv, VariableTypes, fileVars
<1> QED
  BY <1>1, <1>2, LocalStep

\* An older version's config has no user.
LEMMA LegacyConfig ==
  ASSUME NEW config \in Legacy
  PROVE  config \in Config /\ config.user = None /\ config.given = TRUE
BY DEF Legacy, Blank, Config

\* Nothing is asked of an empty hand.
LEMMA BlankHand ==
  /\ Blank \in Config /\ "idle" \in Pc
  /\ \A w, o : HandOK("idle", Blank, w, o)
BY DEF Blank, Config, Pc, HandOK

LEMMA InitInv == Init => Inv
<1> SUFFICES ASSUME Init PROVE Inv
  OBVIOUS
<1>1. VariableTypes
  BY BlankHand, LegacyConfig DEF Init, VariableTypes, Pc
<1>2. FileOK /\ ServerOK /\ NewUsersDiffer
  BY DEF Init, FileOK, ServerOK, NewUsersDiffer
<1>3. HandsOK
  BY BlankHand DEF Init, HandsOK
<1> QED
  BY <1>1, <1>2, <1>3 DEF Inv

-----------------------------------------------------------------------------
(***************************************************************************)
(* Every step keeps the invariant                                          *)
(***************************************************************************)

LEMMA RegisterUserInv ==
  ASSUME Inv, NEW p \in Procs, NEW w \in Wallets, RegisterUser(p, w)
  PROVE  Inv'
<1> DEFINE config == [Blank EXCEPT !.wallet = w]
<1>1. config \in Config /\ config.wallet = w /\ config.node = None
  BY DEF Blank, Config
<1>2. "get_user" \in Pc /\ Goto(p, "get_user", config)
  BY DEF Pc, RegisterUser
<1> HIDE DEF config
<1>3. HandOK("get_user", config, walletOf, ownerOf)
  BY <1>1 DEF HandOK
<1> QED
  BY <1>1, <1>2, <1>3, QuietStep DEF RegisterUser

LEMMA UserFoundInv ==
  ASSUME Inv, NEW p \in Procs, NEW u \in Users, UserFound(p, u)
  PROVE  Inv'
<1> DEFINE config == [hand[p] EXCEPT !.user = u]
<1>1. hand[p] \in Config /\ hand[p].wallet \in Wallets /\ hand[p].node = None
  BY DEF Inv, VariableTypes, HandsOK, HandOK, UserFound
<1>2. /\ config \in Config
      /\ config.user = u /\ config.wallet = hand[p].wallet /\ config.node = None
  BY <1>1 DEF Config
<1>3. "save" \in Pc /\ Goto(p, "save", config) /\ walletOf[u] = hand[p].wallet
  BY DEF Pc, UserFound
<1> HIDE DEF config
<1>4. HandOK("save", config, walletOf, ownerOf)
  BY <1>1, <1>2, <1>3 DEF HandOK, Backed
<1> QED
  BY <1>2, <1>3, <1>4, QuietStep DEF UserFound

LEMMA UserNotFoundInv ==
  ASSUME Inv, NEW p \in Procs, UserNotFound(p)
  PROVE  Inv'
<1> DEFINE u == CHOOSE u \in Unused : TRUE
           config == [hand[p] EXCEPT !.user = u]
<1>1. u \in Users /\ walletOf[u] = None /\ \A q \in Procs : hand[q].user # u
  BY DEF UserNotFound, Unused
<1>2. hand[p] \in Config /\ hand[p].wallet \in Wallets /\ hand[p].node = None
  BY DEF Inv, VariableTypes, HandsOK, HandOK, UserNotFound
<1>3. Goto(p, "post_user", config) /\ "post_user" \in Pc
  BY DEF UserNotFound, Pc
<1> HIDE DEF u
<1>4. /\ config \in Config
      /\ config.user = u /\ config.wallet = hand[p].wallet /\ config.node = None
  BY <1>1, <1>2 DEF Config
<1> HIDE DEF config
<1>5. HandOK("post_user", config, walletOf, ownerOf)
  BY <1>1, <1>2, <1>4 DEF HandOK
<1> QED
  BY <1>1, <1>3, <1>4, <1>5, QuietStep DEF UserNotFound

\* The server learns of a user nobody else is about to register.
LEMMA PostUserInv ==
  ASSUME Inv, NEW p \in Procs, PostUser(p)
  PROVE  Inv'
<1>1. /\ hand[p] \in Config /\ hand[p].wallet \in Wallets /\ hand[p].node = None
      /\ hand[p].user \in Users /\ walletOf[hand[p].user] = None
      /\ pc[p] = "post_user"
  BY DEF Inv, VariableTypes, HandsOK, HandOK, PostUser
<1>2. CASE UNCHANGED walletOf /\ Goto(p, "idle", Blank)
  BY <1>2, BlankHand, QuietStep DEF PostUser, serverVars
<1>3. ASSUME walletOf' = [walletOf EXCEPT ![hand[p].user] = hand[p].wallet],
             NEW where \in Pc, NEW config \in Config, Goto(p, where, config),
             HandOK(where, config, walletOf', ownerOf'), where # "post_user"
      PROVE  Inv'
  <2>1. Learns(walletOf, ownerOf, walletOf', ownerOf')
    BY <1>1, <1>3 DEF Learns, PostUser, Inv, VariableTypes
  <2>2. VariableTypes'
    BY <1>1, <1>3 DEF PostUser, Goto, fileVars, Inv, VariableTypes
  <2>3. FileOK'
    BY <2>1, BackedStays DEF PostUser, fileVars, Inv, VariableTypes, FileOK
  <2>4. ServerOK'
    <3> SUFFICES ASSUME NEW n \in Nodes, ownerOf[n] # None
                 PROVE  walletOf'[ownerOf[n]] # None
      BY DEF ServerOK, PostUser
    <3> QED
      BY <1>1, <1>3, RegistrationAssumption DEF Inv, VariableTypes, ServerOK
  <2>5. ASSUME NEW q \in Procs \ {p}, pc[q] = "post_user"
        PROVE  walletOf'[hand[q].user] = walletOf[hand[q].user]
    <3>1. hand[q].user # hand[p].user /\ hand[q].user \in Users
      BY <1>1, <2>5 DEF Inv, NewUsersDiffer, HandsOK, HandOK
    <3> QED
      BY <1>1, <1>3, <3>1 DEF Inv, VariableTypes
  <2> QED
    BY <1>3, <2>1, <2>2, <2>3, <2>4, <2>5, ProcessStep
<1>4. CASE /\ walletOf' = [walletOf EXCEPT ![hand[p].user] = hand[p].wallet]
           /\ Goto(p, "save", hand[p])
  <2>1. walletOf'[hand[p].user] = hand[p].wallet
    BY <1>1, <1>4 DEF Inv, VariableTypes
  <2>2. HandOK("save", hand[p], walletOf', ownerOf')
    BY <1>1, <2>1 DEF HandOK, Backed
  <2> QED
    BY <1>1, <1>3, <1>4, <2>2 DEF Pc
<1>5. CASE /\ walletOf' = [walletOf EXCEPT ![hand[p].user] = hand[p].wallet]
           /\ Goto(p, "idle", Blank)
  BY <1>3, <1>5, BlankHand
<1> QED
  BY <1>2, <1>4, <1>5 DEF PostUser

LEMMA RegisterNodeInv ==
  ASSUME Inv, NEW p \in Procs, RegisterNode(p)
  PROVE  Inv'
<1>1. saved \in Config /\ Backed(saved, walletOf, ownerOf)
  BY LegacyConfig DEF Inv, VariableTypes, FileOK, RegisterNode
<1>2. HandOK("post_node", saved, walletOf, ownerOf) /\ "post_node" \in Pc
  BY <1>1 DEF HandOK, Pc
<1> QED
  BY <1>1, <1>2, QuietStep DEF RegisterNode

LEMMA PostNodeInv ==
  ASSUME Inv, NEW p \in Procs, NEW n \in Nodes, PostNode(p, n)
  PROVE  Inv'
<1> DEFINE config == [hand[p] EXCEPT !.node = n, !.given = FALSE]
<1>1. hand[p] \in Config /\ Backed(hand[p], walletOf, ownerOf)
  BY DEF Inv, VariableTypes, HandsOK, HandOK, PostNode
<1>2. CASE UNCHANGED ownerOf /\ Goto(p, "idle", Blank)
  BY <1>2, BlankHand, QuietStep DEF PostNode, serverVars
<1>3. ASSUME ownerOf[n] = None, ownerOf' = [ownerOf EXCEPT ![n] = hand[p].user],
             NEW where \in Pc, NEW held \in Config, Goto(p, where, held),
             HandOK(where, held, walletOf', ownerOf'), where # "post_user"
      PROVE  Inv'
  <2>1. Learns(walletOf, ownerOf, walletOf', ownerOf')
    BY <1>3 DEF Learns, PostNode, Inv, VariableTypes
  <2>2. VariableTypes'
    BY <1>1, <1>3 DEF PostNode, Goto, fileVars, Inv, VariableTypes, Backed
  <2>3. FileOK'
    BY <2>1, BackedStays DEF PostNode, fileVars, Inv, VariableTypes, FileOK
  <2>4. ServerOK'
    <3>1. walletOf[hand[p].user] # None
      BY <1>1, RegistrationAssumption DEF Backed
    <3> QED
      BY <1>3, <3>1 DEF PostNode, Inv, VariableTypes, ServerOK
  <2> QED
    BY <1>3, <2>1, <2>2, <2>3, <2>4, ProcessStep DEF PostNode
<1>4. CASE /\ ownerOf[n] = None
           /\ ownerOf' = [ownerOf EXCEPT ![n] = hand[p].user]
           /\ Goto(p, "save", config)
  <2>1. /\ config \in Config /\ config.node = n
        /\ config.user = hand[p].user /\ config.wallet = hand[p].wallet
    BY <1>1 DEF Config
  <2> HIDE DEF config
  <2>2. ownerOf'[n] = hand[p].user /\ walletOf' = walletOf
    BY <1>4 DEF PostNode, Inv, VariableTypes
  <2>3. HandOK("save", config, walletOf', ownerOf')
    BY <1>1, <2>1, <2>2 DEF HandOK, Backed
  <2> QED
    BY <1>3, <1>4, <2>1, <2>3 DEF Pc
<1>5. CASE /\ ownerOf[n] = None
           /\ ownerOf' = [ownerOf EXCEPT ![n] = hand[p].user]
           /\ Goto(p, "idle", Blank)
  BY <1>3, <1>5, BlankHand
<1> QED
  BY <1>2, <1>4, <1>5 DEF PostNode

LEMMA LinkNodeInv ==
  ASSUME Inv, NEW p \in Procs, NEW n \in Nodes, LinkNode(p, n)
  PROVE  Inv'
<1> DEFINE config == [saved EXCEPT !.node = n, !.given = TRUE]
<1>1. saved \in Config /\ Backed(saved, walletOf, ownerOf)
  BY LegacyConfig DEF Inv, VariableTypes, FileOK, LinkNode
<1>2. /\ config \in Config /\ config.given = TRUE
      /\ config.user = saved.user /\ config.wallet = saved.wallet
  BY <1>1 DEF Config
<1>3. Goto(p, "save", config) /\ "save" \in Pc
  BY DEF LinkNode, Pc
<1> HIDE DEF config
<1>4. HandOK("save", config, walletOf, ownerOf)
  BY <1>1, <1>2 DEF HandOK, Backed
<1> QED
  BY <1>2, <1>3, <1>4, QuietStep DEF LinkNode

LEMMA TruncateInv ==
  ASSUME Inv, NEW p \in Procs, Truncate(p)
  PROVE  Inv'
<1>1. hand[p] \in Config /\ HandOK("write", hand[p], walletOf, ownerOf)
  BY DEF Inv, VariableTypes, HandsOK, HandOK, Truncate
<1>2. FileOK' /\ unlinked' \subseteq Procs
  BY DEF Truncate, FileOK, Inv, VariableTypes
<1> QED
  BY <1>1, <1>2, BlankHand, LocalStep DEF Truncate, Pc

\* Whatever else was written, the file is this process's config or unreadable.
LEMMA WriteFileInv ==
  ASSUME Inv, NEW p \in Procs, WriteFile(p)
  PROVE  Inv'
<1>1. hand[p] \in Config /\ Backed(hand[p], walletOf, ownerOf)
  BY DEF Inv, VariableTypes, HandsOK, HandOK, WriteFile
<1>2. /\ FileOK'
      /\ file' \in {"absent", "empty", "garbled", "config"}
      /\ saved' \in Config
  BY <1>1, BlankHand DEF WriteFile, Content, Inv, VariableTypes, FileOK, serverVars
<1>3. unlinked' \subseteq Procs
  BY DEF WriteFile, Inv, VariableTypes
<1> QED
  BY <1>2, <1>3, BlankHand, LocalStep DEF WriteFile

LEMMA LogoutInv ==
  ASSUME Inv, NEW p \in Procs, Logout(p)
  PROVE  Inv'
<1>1. VariableTypes'
  BY BlankHand DEF Logout, serverVars, Inv, VariableTypes
<1>2. FileOK' /\ ServerOK' /\ NewUsersDiffer' /\ HandsOK'
  BY DEF Logout, serverVars, Inv, FileOK, ServerOK, NewUsersDiffer, HandsOK
<1> QED
  BY <1>1, <1>2 DEF Inv

LEMMA StartInv ==
  ASSUME Inv, NEW p \in Procs, Start(p)
  PROVE  Inv'
<1>1. saved \in Config /\ Backed(saved, walletOf, ownerOf)
  BY LegacyConfig DEF Inv, VariableTypes, FileOK, Start
<1>2. HandOK("get_node", saved, walletOf, ownerOf) /\ "get_node" \in Pc
  BY <1>1 DEF HandOK, Runnable, Backed, Config, Start, Pc
<1> QED
  BY <1>1, <1>2, QuietStep DEF Start

LEMMA StartNodeInv ==
  ASSUME Inv, NEW p \in Procs, NEW n \in Nodes, StartNode(p, n)
  PROVE  Inv'
<1> DEFINE config == [Blank EXCEPT !.node = n]
<1>1. config \in Config /\ config.node = n /\ config.user = None
  BY DEF Blank, Config
<1>2. Goto(p, "get_node", config) /\ "get_node" \in Pc
  BY DEF StartNode, Pc
<1> HIDE DEF config
<1>3. HandOK("get_node", config, walletOf, ownerOf)
  BY <1>1 DEF HandOK, Runnable
<1> QED
  BY <1>1, <1>2, <1>3, QuietStep DEF StartNode

LEMMA NodeFoundInv ==
  ASSUME Inv, NEW p \in Procs, NodeFound(p)
  PROVE  Inv'
<1> DEFINE owner == ownerOf[hand[p].node]
           config == [hand[p] EXCEPT !.wallet = walletOf[owner]]
<1>1. hand[p] \in Config /\ Runnable(hand[p], ownerOf)
  BY DEF Inv, VariableTypes, HandsOK, HandOK, NodeFound
<1>2. owner \in Users /\ walletOf[owner] \in Wallets
  BY <1>1 DEF Inv, VariableTypes, ServerOK, NodeFound, Runnable
<1>3. Goto(p, "running", config) /\ "running" \in Pc
  BY DEF NodeFound, Pc
<1>4. /\ config \in Config /\ config.node = hand[p].node /\ config.user = hand[p].user
      /\ config.given = hand[p].given /\ config.wallet = walletOf[owner]
  BY <1>1, <1>2 DEF Config
<1> HIDE DEF config
<1>5. HandOK("running", config, walletOf, ownerOf)
  BY <1>1, <1>2, <1>4 DEF HandOK, Runnable
<1> QED
  BY <1>3, <1>4, <1>5, QuietStep DEF NodeFound

LEMMA DieInv ==
  ASSUME Inv, NEW p \in Procs, Die(p)
  PROVE  Inv'
<1>1. FileOK'
  BY DEF Die, Inv, FileOK, serverVars
<1>2. unlinked' \subseteq Procs /\ file' = file /\ saved' = saved
  BY DEF Die, Inv, VariableTypes
<1> QED
  BY <1>1, <1>2, BlankHand, LocalStep DEF Die, Inv, VariableTypes

LEMMA InvStep == Inv /\ [Next]_vars => Inv'
<1> SUFFICES ASSUME Inv, [Next]_vars PROVE Inv'
  OBVIOUS
<1>1. CASE Next
  <2>1. PICK p \in Procs : Command(p) \/ GoOn(p) \/ Die(p)
    BY <1>1 DEF Next
  <2>2. CASE Command(p)
    BY <2>2, RegisterUserInv, RegisterNodeInv, LinkNodeInv, LogoutInv, StartInv,
       StartNodeInv DEF Command
  <2>3. CASE GoOn(p)
    BY <2>3, UserFoundInv, UserNotFoundInv, PostUserInv, PostNodeInv, TruncateInv,
       WriteFileInv, NodeFoundInv DEF GoOn
  <2> QED
    BY <2>1, <2>2, <2>3, DieInv
<1>2. CASE UNCHANGED vars
  BY <1>2 DEF vars, fileVars, serverVars, Inv, VariableTypes, FileOK, ServerOK,
              NewUsersDiffer, HandsOK
<1> QED
  BY <1>1, <1>2

LEMMA AlwaysInv == Spec => []Inv
BY InitInv, InvStep, PTL DEF Spec

-----------------------------------------------------------------------------

\* Every variable keeps its type, whatever commands run side by side and are
\* killed at whatever step.
THEOREM RegistrationTypeCorrect == Spec => []TypeOK
<1>1. Inv => TypeOK
  BY DEF Inv, HandsOK, HandOK, Backed, TypeOK
<1> QED
  BY <1>1, AlwaysInv, PTL

\* The user of a config that can be read is registered with the wallet of the
\* config: no lost answer, kill or second command makes register.rs save another.
THEOREM SavedUserIsRegistered == Spec => []SavedUserRegistered
<1>1. Inv => SavedUserRegistered
  BY DEF Inv, FileOK, Backed, SavedUserRegistered
<1> QED
  BY <1>1, AlwaysInv, PTL

\* The node that register.rs saves belongs to the user saved with it.
THEOREM SavedNodeIsOfUser == Spec => []NodeOfUser
<1>1. Inv => NodeOfUser
  BY LegacyConfig DEF Inv, FileOK, Backed, NodeOfUser
<1> QED
  BY <1>1, AlwaysInv, PTL

\* A session that Config::resolve started runs for a registered node, under the
\* wallet of its owner.
THEOREM SessionIsOfOwner == Spec => []SessionOfOwner
<1>1. Inv => SessionOfOwner
  BY RegistrationAssumption
     DEF Inv, HandsOK, HandOK, Runnable, SessionOfOwner
<1> QED
  BY <1>1, AlwaysInv, PTL

\* The file is emptied only by a process that holds what the server answered.
THEOREM OldFileIsKept == Spec => OldFileKept
<1> DEFINE Answered ==
      file = "config" /\ file' = "empty" =>
        \E p \in Procs :
          /\ pc[p] = "save" /\ pc'[p] = "write"
          /\ walletOf[hand[p].user] = hand[p].wallet
          /\ hand[p].node # None => ownerOf[hand[p].node] = hand[p].user \/ hand[p].given
<1>1. ASSUME Inv, [Next]_vars PROVE [Answered]_vars
  <2> SUFFICES ASSUME file = "config", file' = "empty" PROVE Answered
    OBVIOUS
  <2>1. PICK p \in Procs : Command(p) \/ GoOn(p) \/ Die(p)
    BY <1>1 DEF Next, vars, fileVars
  <2>2. Truncate(p)
    BY <2>1 DEF Command, GoOn, Die, RegisterUser, RegisterNode, LinkNode, Logout, Start,
       StartNode, UserFound, UserNotFound, PostUser, PostNode, WriteFile, NodeFound,
       fileVars
  <2>3. pc[p] = "save" /\ pc'[p] = "write" /\ Backed(hand[p], walletOf, ownerOf)
    BY <1>1, <2>2 DEF Truncate, Goto, Inv, VariableTypes, HandsOK, HandOK
  <2> QED
    BY <2>3 DEF Backed
<1> QED
  BY <1>1, AlwaysInv, PTL DEF Spec, OldFileKept
=============================================================================
