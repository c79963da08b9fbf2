------------------------------ MODULE FillerAdmin ------------------------------
(***************************************************************************)
(* The registered fillers: the table cc_fillers (services/fillerRegistry), *)
(* the admin's routes on it (routes/admin) behind a session                *)
(* (services/adminAuth), the Fillers tab of the admin's page               *)
(* (frontend/src/pages/Admin.tsx), several of which may be open, and the   *)
(* ranking of the fillers of a chain (services/preflightService).          *)
(*                                                                         *)
(* A filler's URL, whether it answers a ping and what the page says are    *)
(* left out; a session runs out at any time.  Of two alike among the calls *)
(* under way only one is kept.                                             *)
(***************************************************************************)
EXTENDS Integers, FiniteSets

CONSTANTS
  Pages,
  Names,       \* of fillers
  Own,         \* the addresses of each filler
  Seeds,       \* the fillers of the backend's .env
  Networks,    \* the chains a filler may operate on
  MaxLogins,   \* bound: sessions
  MaxClicks,   \* bound: what the admins do in the Fillers tab
  MaxLoads,    \* bound: loads of the list under way
  MaxCalls,    \* bound: other calls under way
  MaxRestarts  \* bound

NotSet   == "not set"
NoName   == "no name"
NoFiller == [address |-> NotSet, chains |-> {}, there |-> FALSE]
NoForm   == [name |-> NoName, address |-> NotSet, chains |-> {}]

Addresses(n) == Own[n] \cup {NotSet}

(* An address is one filler's.                                             *)
ASSUME FillersAssumption ==
  /\ NoName \notin Names /\ Seeds \subseteq Names
  /\ \A n \in Names : Own[n] # {} /\ NotSet \notin Own[n]
  /\ \A n, m \in Names : n # m => Own[n] \cap Own[m] = {}
  /\ {MaxLogins, MaxClicks, MaxLoads, MaxCalls, MaxRestarts} \subseteq Nat

VARIABLES
  cc_fillers,  \* the table
  sessions, issued,
  token,       \* the session each page has, 0 for none
  tab,         \* the pages that show the Fillers tab
  fillers,     \* the list each shows
  loading,     \* the pages that wait for one
  adding,      \* the form for a new filler
  editing,     \* the form below a filler of the list
  loads,       \* the calls for the list under way
  calls,       \* the others
  clicks, restarts

authVars    == <<sessions, issued, token>>
tabVars     == <<tab, fillers, loading, adding, editing>>
fillersVars == <<cc_fillers, authVars, tabVars, loads, calls, clicks, restarts>>

Entry(address, chains) == [address |-> address, chains |-> chains, there |-> TRUE]
Nobody == [n \in Names |-> NoFiller]

(* initFillerSchema, whenever the backend starts.                          *)
Seeded(table) ==
  [n \in Names |-> IF n \in Seeds /\ ~table[n].there THEN Entry(NotSet, {}) ELSE table[n]]

(* The table is what earlier runs left, some addresses of it recorded.     *)
Known(who) == [n \in Names |-> IF n \in who THEN Entry(CHOOSE a \in Own[n] : TRUE, {}) ELSE NoFiller]

FillersInit ==
  /\ \E who \in SUBSET Names : cc_fillers = Seeded(Known(who))
  /\ sessions = {} /\ issued = 0 /\ token = [p \in Pages |-> 0]
  /\ tab = {} /\ fillers = [p \in Pages |-> Nobody] /\ loading = {}
  /\ adding = [p \in Pages |-> NoForm] /\ editing = [p \in Pages |-> NoForm]
  /\ loads = {} /\ calls = {} /\ clicks = 0 /\ restarts = 0

-----------------------------------------------------------------------------
(* Sessions: in the backend's memory, and in the tab's storage.  To log out*)
(* does not end one.                                                       *)
login ==
  issued < MaxLogins /\ issued' = issued + 1 /\ sessions' = sessions \cup {issued'}

verifyToken(t) == t \in sessions

LogIn(p) ==
  /\ token[p] = 0 /\ login /\ token' = [token EXCEPT ![p] = issued']
  /\ UNCHANGED <<cc_fillers, tabVars, loads, calls, clicks, restarts>>

Expires(t) ==
  /\ t \in sessions /\ sessions' = sessions \ {t}
  /\ UNCHANGED <<cc_fillers, issued, token, tabVars, loads, calls, clicks, restarts>>

(* The Fillers tab goes, and with it what it held: an answer to it is no   *)
(* longer shown.                                                           *)
Unmount(p, went) ==
  /\ tab' = tab \ {p} /\ loading' = loading \ {p}
  /\ fillers' = [fillers EXCEPT ![p] = Nobody]
  /\ adding' = [adding EXCEPT ![p] = NoForm] /\ editing' = [editing EXCEPT ![p] = NoForm]
  /\ loads' = {l \in loads : l.page # p}
  /\ calls' = {IF c.page = p THEN [c EXCEPT !.shown = FALSE] ELSE c : c \in calls \ went}

handleLogout(p, went) == token' = [token EXCEPT ![p] = 0] /\ Unmount(p, went)

LogOut(p) ==
  /\ token[p] # 0 /\ handleLogout(p, {})
  /\ UNCHANGED <<cc_fillers, sessions, issued, clicks, restarts>>

(* A restart forgets the sessions and what it has not answered.            *)
Restart ==
  /\ restarts < MaxRestarts /\ restarts' = restarts + 1
  /\ sessions' = {} /\ cc_fillers' = Seeded(cc_fillers)
  /\ calls' = {c \in calls : c.pc \in {"done", "refused", "unauthorized"}}
  /\ loads' = {[l EXCEPT !.read = TRUE, !.rows = Nobody] : l \in loads}
  /\ UNCHANGED <<issued, token, tabVars, clicks>>

-----------------------------------------------------------------------------
(* The list.                                                               *)
Load(p) ==
  /\ Cardinality(loads) < MaxLoads
  /\ loads' = loads \cup {[page |-> p, read |-> FALSE, rows |-> Nobody]}
  /\ loading' = loading \cup {p}

Acting == clicks < MaxClicks /\ clicks' = clicks + 1

OpenTab(p) ==
  /\ Acting /\ token[p] # 0 /\ p \notin tab /\ tab' = tab \cup {p} /\ Load(p)
  /\ UNCHANGED <<cc_fillers, authVars, fillers, adding, editing, calls, restarts>>

LeaveTab(p) ==
  /\ p \in tab /\ Unmount(p, {})
  /\ UNCHANGED <<cc_fillers, authVars, clicks, restarts>>

Click(p) == p \in tab /\ Acting

Refresh(p) ==
  /\ Click(p) /\ p \notin loading /\ Load(p)
  /\ UNCHANGED <<cc_fillers, authVars, tab, fillers, adding, editing, calls, restarts>>

(* The table is read, then every filler pinged, then the list sent.        *)
ListRead(l) ==
  /\ l \in loads /\ ~l.read
  /\ loads' = (loads \ {l}) \cup {[l EXCEPT !.read = TRUE, !.rows = cc_fillers]}
  /\ UNCHANGED <<cc_fillers, authVars, tabVars, calls, clicks, restarts>>

(* Or there is no answer, which is shown as no fillers.                    *)
LoadEnds(l) ==
  /\ l \in loads /\ loads' = loads \ {l} /\ loading' = loading \ {l.page}
  /\ \E list \in {l.rows, Nobody} : fillers' = [fillers EXCEPT ![l.page] = list]
  /\ UNCHANGED <<cc_fillers, authVars, tab, adding, editing, calls, clicks, restarts>>

-----------------------------------------------------------------------------
(* The forms.  The admin types a filler's name, then an address of its own.*)
TypeNew(p, form) ==
  /\ Click(p) /\ adding' = [adding EXCEPT ![p] = form]
  /\ UNCHANGED <<cc_fillers, authVars, tab, fillers, loading, editing, loads, calls, restarts>>

TypeName(p, n) == adding[p].address = NotSet /\ TypeNew(p, [adding[p] EXCEPT !.name = n])

TypeAddress(p, a) ==
  /\ adding[p].name # NoName /\ a \in Own[adding[p].name]
  /\ TypeNew(p, [adding[p] EXCEPT !.address = a])

toggleChain(list, id) == IF id \in list THEN list \ {id} ELSE list \cup {id}

CheckNew(p, id) == TypeNew(p, [adding[p] EXCEPT !.chains = toggleChain(@, id)])

Edit(p, form) ==
  /\ Click(p) /\ editing' = [editing EXCEPT ![p] = form]
  /\ UNCHANGED <<cc_fillers, authVars, tab, fillers, loading, adding, loads, calls, restarts>>

(* Fault: an address that is in the form stays.                            *)
startEdit_KeepsAddress(p, n) ==
  [name |-> n, chains |-> fillers[p][n].chains,
   address |-> IF editing[p].address = NotSet THEN fillers[p][n].address ELSE editing[p].address]

(* The form starts from the list as it is shown.                           *)
startEdit(p, n) == [name |-> n, address |-> fillers[p][n].address, chains |-> fillers[p][n].chains]

PressEdit(p, n) == fillers[p][n].there /\ Edit(p, startEdit(p, n))

(* It is there while the list shows its filler.                            *)
Open(p) == editing[p].name # NoName /\ fillers[p][editing[p].name].there

EditAddress(p, a) ==
  /\ Open(p) /\ a \in Addresses(editing[p].name)
  /\ Edit(p, [editing[p] EXCEPT !.address = a])

CheckEdit(p, id) == Open(p) /\ Edit(p, [editing[p] EXCEPT !.chains = toggleChain(@, id)])

CancelEdit(p) == Open(p) /\ Edit(p, [editing[p] EXCEPT !.name = NoName])

-----------------------------------------------------------------------------
(* The calls, with the page's session ...                                  *)
Call(p, kind, form) ==
  /\ Click(p) /\ Cardinality(calls) < MaxCalls
  /\ calls' = calls \cup
       {[page |-> p, shown |-> TRUE, kind |-> kind, pc |-> "sent", token |-> token[p], form |-> form]}
  /\ UNCHANGED <<cc_fillers, authVars, tabVars, loads, restarts>>

addFiller(p) == adding[p].name # NoName /\ Call(p, "add", adding[p])
saveEdit(p)  == Open(p) /\ Call(p, "edit", editing[p])

removeFiller(p, n) ==
  fillers[p][n].there /\ Call(p, "remove", [NoForm EXCEPT !.name = n])

GoesTo(c, pc) == calls' = (calls \ {c}) \cup {[c EXCEPT !.pc = pc]}

(* ... which must be alive ...                                             *)
requireAdmin(c) ==
  /\ c \in calls /\ c.pc = "sent"
  /\ GoesTo(c, IF verifyToken(c.token) THEN "allowed" ELSE "unauthorized")
  /\ UNCHANGED <<cc_fillers, authVars, tabVars, loads, clicks, restarts>>

(* ... and what the registry does: it looks for the name and inserts it,   *)
(* which the primary key refuses if it is there by then.                   *)
Selects(c) ==
  /\ c \in calls /\ c.pc = "allowed" /\ c.kind = "add"
  /\ GoesTo(c, IF cc_fillers[c.form.name].there THEN "refused" ELSE "selected")
  /\ UNCHANGED <<cc_fillers, authVars, tabVars, loads, clicks, restarts>>

add(c) == ~cc_fillers[c.form.name].there
            /\ cc_fillers' = [cc_fillers EXCEPT ![c.form.name] = Entry(c.form.address, c.form.chains)]

update(c) == cc_fillers[c.form.name].there
               /\ cc_fillers' = [cc_fillers EXCEPT ![c.form.name] = Entry(c.form.address, c.form.chains)]

remove(c) == cc_fillers[c.form.name].there
               /\ cc_fillers' = [cc_fillers EXCEPT ![c.form.name] = NoFiller]

Does(c) ==
  \/ c.kind = "add" /\ c.pc = "selected" /\ add(c)
  \/ c.kind = "edit" /\ c.pc = "allowed" /\ update(c)
  \/ c.kind = "remove" /\ c.pc = "allowed" /\ remove(c)

Writes(c) ==
  /\ c \in calls /\ Does(c) /\ GoesTo(c, "done")
  /\ UNCHANGED <<authVars, tabVars, loads, clicks, restarts>>

NotWritten(c) ==
  /\ c \in calls /\ c.pc = (IF c.kind = "add" THEN "selected" ELSE "allowed")
  /\ cc_fillers[c.form.name].there <=> c.kind = "add"
  /\ GoesTo(c, "refused")
  /\ UNCHANGED <<cc_fillers, authVars, tabVars, loads, clicks, restarts>>

(* A call that went through empties its form, whatever that has become,    *)
(* and a removal, refused or not, has the list loaded again.               *)
Answered(c) ==
  /\ c \in calls /\ c.shown /\ calls' = calls \ {c}
  /\ c.pc = "done" \/ (c.pc = "refused" /\ c.kind = "remove")
  /\ adding' = IF c.kind = "add" THEN [adding EXCEPT ![c.page] = NoForm] ELSE adding
  /\ editing' = IF c.kind = "edit" THEN [editing EXCEPT ![c.page].name = NoName] ELSE editing
  /\ Load(c.page)
  /\ UNCHANGED <<cc_fillers, authVars, tab, fillers, clicks, restarts>>

(* One without a session logs the page out, be it by then another's.       *)
Unauthorized(c) ==
  /\ c \in calls /\ c.pc = "unauthorized" /\ handleLogout(c.page, {c})
  /\ UNCHANGED <<cc_fillers, sessions, issued, clicks, restarts>>

(* A refusal is shown, as is that there is no answer; for a tab that has   *)
(* gone there is nothing to do.                                            *)
CallFails(c) ==
  /\ c \in calls /\ calls' = calls \ {c}
  /\ UNCHANGED <<cc_fillers, authVars, tabVars, loads, clicks, restarts>>

-----------------------------------------------------------------------------
(* rankFillersByOutputBalance: who operates on the chain, with an address  *)
(* to ask the balance of.                                                  *)
candidates(dst) ==
  {n \in Names : cc_fillers[n].address # NotSet /\ dst \in cc_fillers[n].chains}

FillersNext ==
  \/ \E p \in Pages :
       \/ LogIn(p) \/ LogOut(p) \/ OpenTab(p) \/ LeaveTab(p) \/ Refresh(p)
       \/ addFiller(p) \/ saveEdit(p) \/ CancelEdit(p)
       \/ \E n \in Names :
            \/ TypeName(p, n) \/ PressEdit(p, n) \/ removeFiller(p, n)
            \/ \E a \in Addresses(n) : TypeAddress(p, a) \/ EditAddress(p, a)
       \/ \E id \in Networks : CheckNew(p, id) \/ CheckEdit(p, id)
  \/ \E t \in sessions : Expires(t)
  \/ Restart
  \/ \E l \in loads : ListRead(l) \/ LoadEnds(l)
  \/ \E c \in calls :
       \/ requireAdmin(c) \/ Selects(c) \/ Writes(c) \/ NotWritten(c)
       \/ Answered(c) \/ Unauthorized(c) \/ CallFails(c)

FillersSpec == FillersInit /\ [][FillersNext]_fillersVars

-----------------------------------------------------------------------------
(* No filler is ever registered, or ranked, with an address that was given *)
(* for another: forms are emptied by answers to calls of before, or filled *)
(* from lists that are out of date, while the next filler is typed.        *)
AddressIsItsOwn ==
  /\ \A n \in Names : cc_fillers[n].address \in Addresses(n)
  /\ \A dst \in Networks : \A n \in candidates(dst) : cc_fillers[n].address \in Own[n]

(* Why: so are the addresses of the forms, of the lists, shown or on their *)
(* way, and of the calls.                                                  *)
ItsOwn(list) == \A n \in Names : list[n].address \in Addresses(n)
OfOne(form)  == form.name \in Names => form.address \in Addresses(form.name)

AllAddresses == {NotSet} \cup UNION {Own[n] : n \in Names}
EntryTypes   == [address : AllAddresses, chains : SUBSET Networks, there : BOOLEAN]
FormTypes    == [name : Names \cup {NoName}, address : AllAddresses, chains : SUBSET Networks]
CallTypes    == [page : Pages, shown : BOOLEAN, kind : {"add", "edit", "remove"},
                 pc : {"sent", "allowed", "unauthorized", "selected", "refused", "done"},
                 token : Nat, form : FormTypes]

FillersTypes ==
  /\ issued \in Nat /\ sessions \subseteq Nat /\ token \in [Pages -> Nat]
  /\ cc_fillers \in [Names -> EntryTypes]
  /\ tab \subseteq Pages /\ loading \subseteq Pages
  /\ fillers \in [Pages -> [Names -> EntryTypes]]
  /\ adding \in [Pages -> FormTypes] /\ editing \in [Pages -> FormTypes]
  /\ loads \subseteq [page : Pages, read : BOOLEAN, rows : [Names -> EntryTypes]]
  /\ calls \subseteq CallTypes

FillersInv ==
  /\ FillersTypes
  /\ ItsOwn(cc_fillers) /\ \A l \in loads : ItsOwn(l.rows)
  /\ \A p \in Pages :
       /\ ItsOwn(fillers[p]) /\ OfOne(adding[p]) /\ OfOne(editing[p])
       /\ adding[p].name = NoName => adding[p].address = NotSet
  /\ \A c \in calls : c.form.name \in Names /\ OfOne(c.form)

(* A registered filler changes only as a call about it asks: neither the   *)
(* seeds of a restart nor a second filler of its name, looked for before   *)
(* it was there, take its place.                                           *)
ChangesAsAsked ==
  \A n \in Names : cc_fillers[n].there /\ cc_fillers'[n] # cc_fillers[n] =>
    \E c \in calls :
      /\ c.form.name = n /\ c.pc = "allowed"
      /\ \/ c.kind = "edit" /\ cc_fillers'[n] = Entry(c.form.address, c.form.chains)
         \/ c.kind = "remove" /\ ~cc_fillers'[n].there
=============================================================================
