-------------------------------- MODULE StoreDesk --------------------------------
(***************************************************************************)
(* What a creator and the administrators set up for a store: its type,     *)
(* currency, languages and look (stores.service.ts), its tax classes and   *)
(* rates (tax-management.service.ts), its shipping profiles                *)
(* (shipping.service.ts) and its payment methods (kustom.service.ts,       *)
(* payments.service.ts).  Visitors see the store as the storefront cached  *)
(* it (storefront.service.ts), until it is told that it changed            *)
(* (revalidation.service.ts).                                              *)
(***************************************************************************)
EXTENDS Requests, FiniteSets

CONSTANTS
  Classes, Rates, Profiles, Orders,   \* ids of rows
  Currencies, KustomCurrencies,       \* currencies; those Kustom processes
  Tongues                             \* locales

VARIABLES
  store,     \* the store's row with its languages
  pay,       \* the creator's payment methods, and the platform's currency
  cache,     \* what the storefront keeps of the store, at most one reading
  class, rate, goods,   \* tax classes of the platform, rates, the class of a product
  profile,   \* shipping profiles of one owner
  order,     \* orders of the store
  \* history
  crossed,   \* orders, and 0 for the settings, whose save met a switch of the type or failed
  quiet,     \* a change was not announced to the storefront
  clash,     \* saves of defaults or rows in use that overlapped, or made a second default
  made,      \* rates made and not deleted
  chosen     \* the shipping profile last made the default, if any

varsS == <<store, pay, cache>>
varsT == <<class, rate, goods, made>>
varsP == <<profile, chosen>>
varsD == <<store, pay, cache, class, rate, goods, profile, order, crossed, quiet, clash, made, chosen>>

Types == {"INDEPENDENT", "MARKETPLACE"}
None  == [is |-> "none"]
The(set, default) == IF set = {} THEN default ELSE CHOOSE x \in set : TRUE
\* A store as it is created: the languages as they are sent, the type for good.
NewStore(type, primary, secondary) ==
  [type |-> type, currency |-> {}, active |-> TRUE, primary |-> primary, secondary |-> secondary,
   look |-> 0, off |-> FALSE, ship |-> {}]
-----------------------------------------------------------------------------
(* What the store shows *)

Currency ==
  IF store.type = "INDEPENDENT" THEN The(store.currency, pay.platform) ELSE pay.platform
Independent == store.type = "INDEPENDENT"
CardOffered == IF Independent THEN pay.card = "charges" ELSE pay.card = "payouts"
KustomEnabled == Independent /\ store.active /\ Currency \in KustomCurrencies /\ pay.on /\ pay.complete
Shown ==
  [type |-> store.type, currency |-> Currency, primary |-> store.primary, secondary |-> store.secondary,
   look |-> store.look, card |-> CardOffered, kustom |-> KustomEnabled]
\* GET /payments/config and the creator's settings.
CheckoutConfig ==
  IF ~(store.active /\ Independent) THEN [account |-> FALSE, kustom |-> FALSE]
  ELSE [account |-> pay.card = "charges", kustom |-> KustomEnabled]
SettingsReady == Independent /\ Currency \in KustomCurrencies /\ pay.on /\ pay.complete

Visits(r) ==
  /\ Arrives(r) /\ Ends(r)
  /\ cache' = IF cache = {} /\ store.active THEN {Shown} ELSE cache
  /\ UNCHANGED <<store, pay, order, crossed, quiet, clash>> /\ UNCHANGED <<varsT, varsP>>
\* The storefront is told, and drops what it keeps; or it cannot be reached.
Revalidates(r) ==
  /\ r \in InFlight /\ req[r].op \in {"update", "admin", "look", "speak", "kustom", "flush"}
  /\ req[r].at = "revalidate" /\ Ends(r)
  /\ \E reached \in BOOLEAN :
       /\ cache' = IF reached THEN {} ELSE cache
       /\ quiet' = IF reached THEN FALSE ELSE (quiet \/ req[r].op # "flush")
  /\ UNCHANGED <<store, pay, order, crossed, clash>> /\ UNCHANGED <<varsT, varsP>>
Flushes(r) == Arrives(r) /\ Start(r, [op |-> "flush", at |-> "revalidate"]) /\ UNCHANGED varsD
-----------------------------------------------------------------------------
(* Type, currency and orders *)

Others == <<pay, cache, quiet, clash>>
\* A creator's save, with a currency, with none to go back to the platform's, or without.
Saves(r, given, currency, active) ==
  /\ Arrives(r)
  /\ IF given /\ currency # {} /\ ~Independent THEN Ends(r)
     ELSE Start(r, [op |-> "update", at |-> "write", given |-> given, currency |-> currency, active |-> active,
                    type |-> store.type, sent |-> {}, switch |-> FALSE])
  /\ UNCHANGED varsD
CurrencyFor(switch, given, currency) ==
  IF switch THEN [given |-> TRUE, currency |-> {}] ELSE [given |-> given, currency |-> currency]
AdminSaves(r, sent, given, currency) ==
  LET switch == sent \notin {{}, {store.type}}
      money  == CurrencyFor(switch, given, currency)
  IN  /\ Arrives(r)
      /\ IF money.given /\ money.currency # {} /\ "INDEPENDENT" \notin (IF sent = {} THEN {store.type} ELSE sent)
         THEN Ends(r)
         ELSE Start(r, [op |-> "admin", at |-> "write", given |-> money.given, currency |-> money.currency,
                        active |-> {}, type |-> store.type, sent |-> sent, switch |-> switch])
      /\ UNCHANGED varsD
\* MUTANT: nothing is swept after a switch.
NoSweep(q) == "revalidate"
AfterWrite(q) == IF q.switch THEN "list" ELSE "revalidate"
WritesStore(r) ==
  LET q == req[r] IN
  /\ r \in Running("update") \cup Running("admin") /\ q.at = "write"
  /\ GoesTo(r, AfterWrite(q))
  /\ store' = [store EXCEPT !.currency = IF q.given THEN q.currency ELSE @, !.active = The(q.active, @),
                            !.type = The(q.sent, @)]
  /\ crossed' = IF q.type # store.type THEN crossed \cup {0} \cup {o \in Orders : order[o] # None} ELSE crossed
  /\ order' = order
  /\ UNCHANGED Others /\ UNCHANGED <<varsT, varsP>>
\* After a switch, the split of each unpaid order is derived again.
There(o) == order[o] # None
Unpaid == {o \in Orders : There(o) /\ ~order[o].paid}
SplitOf(type) == IF type = "INDEPENDENT" THEN "own" ELSE "shared"
ListsUnpaid(r) ==
  /\ At(r, "admin", "list")
  /\ Start(r, [op |-> "admin", at |-> "sweep", todo |-> Unpaid])
  /\ UNCHANGED varsD
ReadsUnpaid(r, o) ==
  /\ At(r, "admin", "sweep") /\ o \in req[r].todo
  /\ IF order[o].paid THEN Start(r, [req[r] EXCEPT !.todo = @ \ {o}])
     ELSE Start(r, [op |-> "admin", at |-> "upsert", todo |-> req[r].todo \ {o}, o |-> o, type |-> store.type])
  /\ UNCHANGED varsD
Upserts(r) ==
  LET q == req[r] IN
  /\ At(r, "admin", "upsert")
  /\ Start(r, [op |-> "admin", at |-> "sweep", todo |-> q.todo])
  /\ \/ /\ order' = [order EXCEPT ![q.o].split = SplitOf(q.type)]
        /\ crossed' = IF q.type # store.type THEN crossed \cup {q.o} ELSE crossed
     \* A failure is logged, and the next order's turn comes.
     \/ order' = order /\ crossed' = crossed \cup {q.o}
  /\ store' = store /\ UNCHANGED Others /\ UNCHANGED <<varsT, varsP>>
Swept(r) ==
  /\ At(r, "admin", "sweep") /\ req[r].todo = {}
  /\ Start(r, [op |-> "admin", at |-> "revalidate"]) /\ UNCHANGED varsD
\* An order is created with the type read before.
Orders0 == {o \in Orders : order[o] = None /\ \A p \in Orders : order[p] = None => o <= p}
Places(r) == Arrives(r) /\ Start(r, [op |-> "order", type |-> store.type]) /\ UNCHANGED varsD
StoresOrder(r) ==
  /\ r \in Running("order") /\ Ends(r)
  /\ \E o \in Orders0 :
       /\ order' = [order EXCEPT ![o] = [paid |-> FALSE, split |-> SplitOf(req[r].type)]]
       /\ crossed' = IF req[r].type # store.type THEN crossed \cup {o} ELSE crossed
  /\ store' = store /\ UNCHANGED Others /\ UNCHANGED <<varsT, varsP>>
Pays(r, o) ==
  /\ Arrives(r) /\ o \in Unpaid /\ Ends(r)
  /\ order' = [order EXCEPT ![o].paid = TRUE]
  /\ UNCHANGED <<store, crossed>> /\ UNCHANGED Others /\ UNCHANGED <<varsT, varsP>>
-----------------------------------------------------------------------------
(* Look, languages and payment methods *)

Announces(r, op) == Start(r, [op |-> op, at |-> "revalidate"])
StoreOnly == UNCHANGED <<pay, cache, order, crossed, quiet, clash>> /\ UNCHANGED <<varsT, varsP>>
Styles(r) == Arrives(r) /\ Announces(r, "look") /\ store' = [store EXCEPT !.look = r] /\ StoreOnly
\* A theme applied afresh strips the brand of the configuration read before.
SelectsTheme(r) ==
  /\ Arrives(r) /\ Start(r, [op |-> "look", at |-> "write", seen |-> store.look]) /\ UNCHANGED varsD
WritesTheme(r) ==
  /\ At(r, "look", "write") /\ Announces(r, "look")
  /\ store' = [store EXCEPT !.look = req[r].seen] /\ StoreOnly
Speaks(r, primary, given, secondary) ==
  LET effective == The(primary, store.primary) IN
  /\ Arrives(r)
  /\ Start(r, [op |-> "speak", at |-> "write", primary |-> primary, given |-> given,
               secondary |-> secondary \ {effective}])
  /\ UNCHANGED varsD
WritesLanguages(r) ==
  LET q == req[r] IN
  /\ At(r, "speak", "write") /\ Announces(r, "speak")
  /\ store' = [store EXCEPT !.primary = The(q.primary, @),
                            !.secondary = IF q.given THEN q.secondary ELSE @]
  /\ StoreOnly
\* MUTANT: the storefront is not told.
KustomSilently(r) == Ends(r)
KustomAnnounced(r) == Announces(r, "kustom")
SetsKustom(r, on, complete) ==
  /\ Arrives(r) /\ KustomAnnounced(r)
  /\ pay' = [pay EXCEPT !.on = on, !.complete = complete]
  /\ UNCHANGED <<store, cache, order, crossed, quiet, clash>> /\ UNCHANGED <<varsT, varsP>>
\* Neither Stripe's report on the account nor the platform's settings are announced.
Unannounced(r, new) ==
  /\ Arrives(r) /\ Ends(r) /\ pay' = new /\ quiet' = TRUE
  /\ UNCHANGED <<store, cache, order, crossed, clash>> /\ UNCHANGED <<varsT, varsP>>
ReportsAccount(r, card) == Unannounced(r, [pay EXCEPT !.card = card])
SetsPlatform(r, currency) == Unannounced(r, [pay EXCEPT !.platform = currency])
-----------------------------------------------------------------------------
(* Taxes *)

TaxOnly == UNCHANGED <<pay, cache, order, crossed, quiet>> /\ UNCHANGED varsP
IsClass(c) == class[c] # None
Defaults == {c \in Classes : IsClass(c) /\ class[c].default}
\* The transactions read, and then clear the defaults they read.
Changing == Running("class") \cup Running("dropClass")
Met(r, rs) == clash' = IF rs \subseteq {r} THEN clash ELSE clash \cup {"class"}
FirstIsDefault(wanted) == wanted \/ \A c \in Classes : ~IsClass(c)
CreatesClass(r, c, wanted) ==
  /\ Arrives(r) /\ class[c] = None
  /\ LET default == FirstIsDefault(wanted) IN
     Start(r, [op |-> "class", c |-> c, new |-> TRUE, default |-> default, clear |-> IF default THEN Defaults ELSE {}])
  /\ UNCHANGED varsD
\* The platform's classes of the seed; a default is left one.
SeedsClass(r, c) ==
  /\ Arrives(r) /\ class[c] = None
  /\ Start(r, [op |-> "class", c |-> c, new |-> TRUE, default |-> Defaults = {}, clear |-> {}])
  /\ UNCHANGED varsD
UpdatesClass(r, c, given, default) ==
  /\ Arrives(r) /\ IsClass(c)
  /\ IF given /\ ~default /\ class[c].default THEN Ends(r)
     ELSE Start(r, [op |-> "class", c |-> c, new |-> FALSE, default |-> given /\ default,
                    clear |-> IF given /\ default THEN Defaults ELSE {}])
  /\ UNCHANGED varsD
WritesClass(r) ==
  LET q == req[r] IN
  /\ r \in Running("class") /\ Ends(r)
  /\ class' = IF q.new <=> IsClass(q.c) THEN class
              ELSE [c \in Classes |->
                     IF c = q.c THEN [default |-> q.default \/ (~q.new /\ class[c].default)]
                     ELSE IF c \in q.clear /\ IsClass(c) THEN [default |-> FALSE] ELSE class[c]]
  /\ Met(r, Changing)
  /\ UNCHANGED <<store, rate, goods, made>> /\ TaxOnly
\* A class that is not the default and that nothing uses.
IsRate(x) == rate[x] # None
InUse(c) == goods = {c} \/ store.ship = {c} \/ \E x \in Rates : IsRate(x) /\ rate[x].class = c
DeletesClass(r, c) ==
  /\ Arrives(r) /\ IsClass(c)
  /\ IF class[c].default \/ InUse(c) THEN Ends(r) ELSE Start(r, [op |-> "dropClass", c |-> c])
  /\ UNCHANGED varsD
\* Its rates go with it; a product and a store lose it.
DropsClass(r) ==
  LET c == req[r].c IN
  /\ r \in Running("dropClass") /\ Ends(r)
  /\ class' = [class EXCEPT ![c] = None]
  /\ rate'  = [x \in Rates |-> IF IsRate(x) /\ rate[x].class = c THEN None ELSE rate[x]]
  /\ goods' = goods \ {c} /\ store' = [store EXCEPT !.ship = @ \ {c}]
  /\ Met(r, Changing \cup Running("rate"))
  /\ UNCHANGED made /\ TaxOnly
\* A rate for a class there is, the platform's or the store's own.
SavesRate(r, x, c, own, active) ==
  /\ Arrives(r)
  /\ IF IsClass(c) /\ (own => Independent) /\ (IsRate(x) => rate[x].own = own)
     THEN Start(r, [op |-> "rate", x |-> x, new |-> rate[x] = None, row |-> [class |-> c, own |-> own, active |-> active]])
     ELSE Ends(r)
  /\ UNCHANGED varsD
\* A class gone since is refused by its key.
WritesRate(r) ==
  LET q == req[r] IN
  /\ r \in Running("rate") /\ Ends(r)
  /\ IF IsClass(q.row.class) /\ (q.new <=> ~IsRate(q.x))
     THEN rate' = [rate EXCEPT ![q.x] = q.row] /\ made' = made \cup {q.x}
     ELSE UNCHANGED <<rate, made>>
  /\ Met(r, Running("dropClass") \cup {r})
  /\ UNCHANGED <<store, class, goods>> /\ TaxOnly
DeletesRate(r, x) ==
  /\ Arrives(r) /\ IsRate(x) /\ (rate[x].own => Independent) /\ Ends(r)
  /\ rate' = [rate EXCEPT ![x] = None] /\ made' = made \ {x}
  /\ UNCHANGED <<store, class, goods, clash>> /\ TaxOnly
AssignsClass(r, c) ==
  /\ Arrives(r) /\ IsClass(c) /\ Ends(r) /\ goods' = {c}
  /\ UNCHANGED <<store, class, rate, made, clash>> /\ TaxOnly
\* The store's own rates only, when it has an active one; the class of its shipping.
OwnActive == {x \in Rates : IsRate(x) /\ rate[x].own /\ rate[x].active}
SavesTaxSettings(r, off, ship) ==
  /\ Arrives(r)
  /\ IF Independent /\ (off => OwnActive # {}) /\ \A c \in ship : IsClass(c)
     THEN Start(r, [op |-> "taxes", off |-> off, ship |-> ship]) ELSE Ends(r)
  /\ UNCHANGED varsD
WritesTaxSettings(r) ==
  /\ r \in Running("taxes") /\ Ends(r)
  /\ store' = IF \A c \in req[r].ship : IsClass(c)
              THEN [store EXCEPT !.off = req[r].off, !.ship = req[r].ship] ELSE store
  /\ UNCHANGED <<class, rate, goods, made, clash>> /\ TaxOnly
-----------------------------------------------------------------------------
(* Shipping profiles *)

ShipOnly == UNCHANGED <<store, pay, cache, order, crossed, quiet>> /\ UNCHANGED varsT
IsProfile(p) == profile[p] # None
\* Nothing is cleared for a profile created as the default.
CreatesProfile(r, p, default, zones) ==
  /\ Arrives(r) /\ profile[p] = None /\ Ends(r)
  /\ profile' = [profile EXCEPT ![p] = [default |-> default, zones |-> zones]]
  /\ clash' = IF default THEN clash \cup {"profile"} ELSE clash
  /\ UNCHANGED chosen /\ ShipOnly
EditsZones(r, p, zones) ==
  /\ Arrives(r) /\ IsProfile(p) /\ Ends(r)
  /\ profile' = [profile EXCEPT ![p].zones = zones]
  /\ UNCHANGED <<chosen, clash>> /\ ShipOnly
\* The zones first, then the profile.
DeletesProfile(r, p) ==
  /\ Arrives(r) /\ IsProfile(p)
  /\ Start(r, [op |-> "dropProfile", p |-> p])
  /\ profile' = [profile EXCEPT ![p].zones = FALSE]
  /\ UNCHANGED <<chosen, clash>> /\ ShipOnly
DropsProfile(r) ==
  /\ r \in Running("dropProfile") /\ Ends(r)
  /\ \/ /\ profile' = [profile EXCEPT ![req[r].p] = None]
        /\ chosen' = chosen \ {req[r].p}
     \/ UNCHANGED <<profile, chosen>>
  /\ UNCHANGED clash /\ ShipOnly
SetsDefault(r, p) ==
  /\ Arrives(r) /\ IsProfile(p) /\ Start(r, [op |-> "default", at |-> "clear", p |-> p])
  /\ UNCHANGED varsD
AllCleared(p) == [x \in Profiles |-> IF IsProfile(x) THEN [profile[x] EXCEPT !.default = FALSE] ELSE None]
ClearsDefaults(r) ==
  /\ At(r, "default", "clear") /\ GoesTo(r, "set")
  /\ profile' = AllCleared(req[r].p)
  /\ UNCHANGED <<chosen, clash>> /\ ShipOnly
SetsTheDefault(r) ==
  LET p == req[r].p IN
  /\ At(r, "default", "set") /\ Ends(r)
  /\ IF IsProfile(p) THEN profile' = [profile EXCEPT ![p].default = TRUE] /\ chosen' = {p} ELSE UNCHANGED varsP
  /\ clash' = IF Running("default") = {r} /\ IsProfile(p) THEN clash ELSE clash \cup {"profile"}
  /\ ShipOnly
DefaultDies(r) ==
  /\ At(r, "default", "set") /\ Ends(r)
  /\ clash' = clash \cup {"profile"} /\ UNCHANGED varsP /\ ShipOnly
-----------------------------------------------------------------------------
Settings(r) ==
  \/ \E given \in BOOLEAN, c \in {{}} \cup {{d} : d \in Currencies} :
       /\ Arrives(r) /\ (c # {} => given)
       /\ Saves(r, given, c, {}) \/ \E sent \in {{}} \cup {{t} : t \in Types} : AdminSaves(r, sent, given, c)
  \/ \E o \in Orders : ReadsUnpaid(r, o) \/ Pays(r, o)
  \/ WritesStore(r) \/ ListsUnpaid(r) \/ Upserts(r) \/ Swept(r) \/ Places(r) \/ StoresOrder(r)
  \/ Revalidates(r)
Showing(r) ==
  \/ Visits(r) \/ Revalidates(r) \/ Flushes(r) \/ Styles(r) \/ SelectsTheme(r) \/ WritesTheme(r) \/ WritesLanguages(r)
  \/ \E p \in {{}} \cup {{l} : l \in Tongues}, given \in BOOLEAN : Speaks(r, p, given, Tongues)
  \/ \E on, complete \in BOOLEAN : SetsKustom(r, on, complete)
  \/ \E card \in {"charges", "payouts", "none"} : ReportsAccount(r, card)
  \/ \E c \in Currencies : SetsPlatform(r, c) \/ Saves(r, TRUE, {c}, {TRUE})
  \/ WritesStore(r)
Taxing(r) ==
  \/ /\ Arrives(r)
     /\ \/ \E c \in Classes :
             \/ SeedsClass(r, c) \/ DeletesClass(r, c) \/ AssignsClass(r, c) \/ SavesTaxSettings(r, FALSE, {c})
             \/ \E b \in BOOLEAN : CreatesClass(r, c, b) \/ \E given \in BOOLEAN : UpdatesClass(r, c, given, b)
             \/ \E x \in Rates, own, active \in BOOLEAN : SavesRate(r, x, c, own, active)
        \/ \E x \in Rates : DeletesRate(r, x)
        \/ \E off \in BOOLEAN : SavesTaxSettings(r, off, {})
  \/ WritesClass(r) \/ DropsClass(r) \/ WritesRate(r) \/ WritesTaxSettings(r)
Sending(r) ==
  \/ /\ Arrives(r)
     /\ \E p \in Profiles : DeletesProfile(r, p) \/ SetsDefault(r, p)
                            \/ \E b, z \in BOOLEAN : CreatesProfile(r, p, b, z) \/ EditsZones(r, p, z)
  \/ DropsProfile(r) \/ ClearsDefaults(r) \/ SetsTheDefault(r) \/ DefaultDies(r)

\* A store and rows as requests that did not overlap leave them, and a
\* storefront that keeps nothing yet.
StoreInit ==
  /\ store \in {NewStore(t, p, s) : t \in Types, p \in Tongues, s \in SUBSET Tongues}
  /\ pay \in [card : {"charges", "payouts", "none"}, on : BOOLEAN, complete : BOOLEAN,
              platform : Currencies \cup KustomCurrencies]
  /\ order \in [Orders -> {None} \cup [paid : BOOLEAN, split : {SplitOf(store.type)}]]
  /\ cache = {} /\ crossed = {} /\ quiet = FALSE
RowsInit ==
  /\ class \in [Classes -> {None} \cup [default : BOOLEAN]]
  /\ (\E c \in Classes : IsClass(c)) => \E c \in Classes : Defaults = {c}
  /\ rate \in [Rates -> {None} \cup [class : {c \in Classes : IsClass(c)}, own : BOOLEAN, active : BOOLEAN]]
  /\ made = {x \in Rates : IsRate(x)} /\ goods = {}
  /\ profile \in [Profiles -> {None} \cup [default : BOOLEAN, zones : BOOLEAN]]
  /\ chosen = {} /\ clash = {}
DeskInit == NoRequests /\ StoreInit /\ RowsInit
DeskNext == \E r \in Requests : Settings(r) \/ Showing(r) \/ Taxing(r) \/ Sending(r)
DeskSpec == DeskInit /\ [][DeskNext]_<<req, varsD>>
-----------------------------------------------------------------------------
\* Only an independent store has a currency of its own, unless its save met a
\* switch of its type, and an unpaid order is split as the store's type says,
\* unless it was placed or derived during a switch or that failed
\* (stores.service.ts:234, stores.service.ts:373, orders.service.ts:1710).
Sweeping == {r \in Running("admin") : req[r].at \in {"list", "sweep", "upsert"}}
TypeGoverns ==
  /\ 0 \notin crossed => (store.currency # {} => Independent)
  /\ Sweeping = {} => \A o \in Unpaid \ crossed : order[o].split = SplitOf(store.type)

\* What the storefront keeps is what the store is, once every change has been
\* announced, and the checkout offers Kustom exactly when the store shows it
\* (revalidation.service.ts:4, kustom.service.ts:1256, storefront.service.ts:210).
Announcing == {r \in InFlight : req[r].op \in {"update", "admin", "look", "speak", "kustom"} /\ req[r].at # "write"}
ShownIsCurrent ==
  /\ ~quiet /\ Announcing = {} => cache \subseteq {Shown}
  /\ store.active => Shown.kustom = CheckoutConfig.kustom /\ (SettingsReady => Shown.kustom)
  /\ Independent /\ store.active => Shown.card = CheckoutConfig.account

\* While there is a tax class one is the default, and no rate goes but the one
\* deleted; the owner's default shipping profile is the one last chosen; saves
\* that overlap aside (tax-management.service.ts:155, :188, :211, shipping.service.ts:280).
DefaultsStand ==
  /\ "class" \notin clash =>
       /\ (\E c \in Classes : IsClass(c)) => Cardinality(Defaults) = 1
       /\ \A x \in made : IsRate(x)
  /\ "profile" \notin clash /\ Running("default") = {} =>
       \A p \in chosen : {x \in Profiles : IsProfile(x) /\ profile[x].default} = {p}

\* What the desk decides stands: the store's type, the default class and the
\* default profile, and the rows that follow them.
SettingsStand == TypeGoverns /\ DefaultsStand
=============================================================================
