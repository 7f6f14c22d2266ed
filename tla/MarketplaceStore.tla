--------------------------- MODULE MarketplaceStore ---------------------------
(***************************************************************************)
(* The tables of the marketplace and the statements MarketplaceRepo runs   *)
(* on them.  The four counters of a row of marketplace_items are kept in   *)
(* "count", under the request that moves them.  Of marketplace_usage_logs  *)
(* the VIEW and EXECUTE rows are kept, which statements read.  The texts   *)
(* of an item and of its resource are left out.                            *)
(***************************************************************************)
EXTENDS Integers, Sequences, FiniteSets

CONSTANTS
  Users,
  MaxItems,     (* bound on the items published                             *)
  Resources,    (* ids of blocks, presets, pipelines and judgment scripts   *)
  KindOf,       (* resource -> the table it is a row of, by its item type   *)
  Jobs,         (* backtest jobs                                            *)
  WinRate,      (* job -> its win rate, rounded to percents                 *)
  None          (* an empty column                                          *)

ItemTypes == {"PIPELINE", "AGENT_BLOCK", "SEARCH_PRESET", "JUDGMENT_SCRIPT"}
Counters == {"view", "fork", "use", "like"}
Items == 1..MaxItems

ASSUME MarketplaceStoreAssumption ==
  /\ MaxItems \in Nat
  /\ IsFiniteSet(Users)
  /\ KindOf \in [Resources -> ItemTypes]
  /\ WinRate \in [Jobs -> 0..100]
  /\ None \notin Users \cup Jobs

VARIABLES
  resources,    (* resource -> its owner, None where there is no row        *)
  items,        (* the rows of marketplace_items in the order they came     *)
  count,        (* item -> view_count, fork_count, usage_count, like_count  *)
  likes,        (* the rows of marketplace_likes                            *)
  recent,       (* <<user, item>> -> VIEW logs of the last hour             *)
  views, runs   (* item -> its VIEW and EXECUTE logs                        *)

logs == <<recent, views, runs>>
tables == <<resources, items, count, likes, logs>>

Status == {"ACTIVE", "HIDDEN", "REMOVED"}
Item == [user : Users, type : ItemTypes, resource : Resources, from : {0} \cup Items,
         status : Status, job : Jobs \cup {None}]

StoreTypeOK ==
  /\ resources \in [Resources -> Users \cup {None}]
  /\ items \in Seq(Item) /\ Len(items) <= MaxItems
  /\ count \in [Items -> [Counters -> Nat]]
  /\ likes \subseteq Users \X Items
  /\ recent \in [Users \X Items -> Nat]
  /\ views \in [Items -> Nat]
  /\ runs \in [Items -> Nat]

Published == 1..Len(items)
Active == {i \in Published : items[i].status = "ACTIVE"}

-----------------------------------------------------------------------------
(* INSERT of an item.  The column for its type is UNIQUE and a foreign key, *)
(* which that for judgment scripts is not.  status and counters default.    *)

MayCreateItem(type, r) ==
  /\ Len(items) < MaxItems
  /\ \A i \in Published : items[i].type = type => items[i].resource # r
  /\ type = "JUDGMENT_SCRIPT" \/ (KindOf[r] = type /\ resources[r] # None)

NewItem(u, type, r, origin) ==
  [user |-> u, type |-> type, resource |-> r, from |-> origin,
   status |-> "ACTIVE", job |-> None]

CreateItem(u, type, r) == Append(items, NewItem(u, type, r, 0))

SoftDeleteItem(u, i) ==
  [items EXCEPT ![i].status = IF items[i].user = u THEN "REMOVED" ELSE @]

SetVerification(i, job) == [items EXCEPT ![i].job = job]
Verified(i) == items[i].job # None

-----------------------------------------------------------------------------
Incremented(i, k) == [count EXCEPT ![i][k] = @ + 1]

(* Mutant: without GREATEST. *)
LikeDecrementedBelowZero(i) == [count EXCEPT ![i]["like"] = @ - 1]

(* Mutant: the last like stays on the counter. *)
LikeDecrementedToOne(i) == [count EXCEPT ![i]["like"] = IF @ > 1 THEN @ - 1 ELSE @]

LikeDecremented(i) == [count EXCEPT ![i]["like"] = IF @ > 0 THEN @ - 1 ELSE 0]

(* Mutant: a like that is there already is taken back. *)
LikeFlipped(u, i) == IF <<u, i>> \in likes THEN likes \ {<<u, i>>} ELSE likes \cup {<<u, i>>}

LikeCreated(u, i) == likes \cup {<<u, i>>}
LikeDeleted(u, i) == likes \ {<<u, i>>}
IsLiked(u, i) == <<u, i>> \in likes

HasRecentView(u, i) == recent[<<u, i>>] > 0

FindItemIDByResourceID(r, type) ==
  {i \in Active : items[i].type = type /\ items[i].resource = r}

(* The sub-queries of the four Refresh...Count statements. *)
Rows(i, k) ==
  CASE k = "fork" -> Cardinality({j \in Published : items[j].from = i})
    [] k = "like" -> Cardinality({u \in Users : <<u, i>> \in likes})
    [] k = "use"  -> runs[i]
    [] k = "view" -> views[i]

Refreshed(i, k, n) == [count EXCEPT ![i][k] = n]
=============================================================================
