----------------------------- MODULE TableService -----------------------------
(***************************************************************************)
(* DynamoDbService (app/services/dynamodb_service.py), as its clients'     *)
(* requests meet each other: tables are created and then described, listed *)
(* and then described one by one.  Items are external; what a request      *)
(* about one does is whether it took effect.  ScanPaging models how items  *)
(* are listed.                                                             *)
(*                                                                         *)
(* DynamoDB creates and deletes tables in the background.  A table still   *)
(* being created may or may not be described, has no items to work on and  *)
(* can neither be created nor deleted; one being deleted is there for some *)
(* calls and not for others, and cannot be created.                        *)
(***************************************************************************)
EXTENDS ServiceRequests

vars == baseVars

ProviderOp ==
    { "CreateTable", "DescribeTable", "DeleteTable", "PutItem", "DeleteItem",
      "Scan", "ListTables", "describe" }

FirstCall ==
    [ create  |-> "CreateTable",
      get     |-> "DescribeTable",
      delete  |-> "DeleteTable",
      put     |-> "PutItem",
      discard |-> "DeleteItem",
      scan    |-> "Scan" ]

Kind == DOMAIN FirstCall \cup {"list"}

Request(c) ==
    \/ \E n \in Name : \E kind \in DOMAIN FirstCall : Ask(c, kind, n, FirstCall[kind])
    \/ Ask(c, "list", NoName, "ListTables")

\* put_item and delete_item convert the item before they call: a value that
\* DynamoDB has no type for ends the request there.
RejectItem(c) ==
    /\ pc[c] \in {"PutItem", "DeleteItem"}
    /\ Finish(c, "VALIDATION_ERROR")
    /\ NoEffect
    /\ SameListing

\* ResourceInUseException: the table exists already, or is mid create/delete.
InUse(c) ==
    /\ Finish(c, "RESOURCE_ALREADY_EXISTS")
    /\ NoEffect
    /\ SameListing

\* What CreateTable does to a name that is free.
TableComes(c) ==
    /\ ~Found(c)
    /\ Effect(c, present \cup {About(c)})
    /\ coming' = coming \cup {About(c)}
    /\ Proceed(c, "DescribeTable") \/ Raise(c)
    /\ UNCHANGED leaving
    /\ SameListing

\* Mutant of CreateTable: the table described is taken for the one created.
CreateTableOverwrites(c) ==
    /\ pc[c] = "CreateTable"
    /\ \/ TableComes(c)
       \/ Found(c) /\ NoEffect /\ Proceed(c, "DescribeTable") /\ SameListing

CreateTable(c) ==
    /\ pc[c] = "CreateTable"
    /\ TableComes(c) \/ (Found(c) /\ InUse(c))

\* Mutant of DescribeTable: whatever goes wrong, the table is said not to exist.
DescribeTableBlamesName(c) ==
    /\ pc[c] = "DescribeTable"
    /\ (Found(c) /\ Finish(c, "ok")) \/ Finish(c, "RESOURCE_NOT_FOUND")
    /\ NoEffect
    /\ SameListing

\* get_table, on its own and at the end of create_table.
DescribeTable(c) ==
    /\ pc[c] = "DescribeTable"
    /\ \/ Found(c) /\ Finish(c, "ok") /\ NoEffect /\ SameListing
       \/ Missed(c)

\* What DeleteTable does to a table, again if it is being deleted already.
TableGoes(c) ==
    /\ Found(c) /\ About(c) \notin coming
    /\ Effect(c, present \ {About(c)})
    /\ leaving' = leaving \cup {About(c)}
    /\ Finish(c, "ok") \/ Raise(c)
    /\ UNCHANGED coming
    /\ SameListing

DeleteTable(c) ==
    /\ pc[c] = "DeleteTable"
    /\ \/ TableGoes(c)
       \/ About(c) \in coming \cup leaving /\ InUse(c)
       \/ ~Found(c) /\ Missed(c)

\* Items can be worked on in a table that is there and ready.
Usable(c) == Found(c) /\ About(c) \notin coming

\* PutItem and DeleteItem change the table's items only.
ChangeItems(c) ==
    /\ pc[c] \in {"PutItem", "DeleteItem"}
    /\ \/ /\ Usable(c)
          /\ Effect(c, present)
          /\ Finish(c, "ok") \/ Raise(c)
          /\ UNCHANGED stages
          /\ SameListing
       \/ Missed(c)

Scan(c) ==
    /\ pc[c] = "Scan"
    /\ \/ Usable(c) /\ Finish(c, "ok") /\ NoEffect /\ SameListing
       \/ Missed(c)

\* list_tables asks for the names, then for each table.
ListTables(c) == pc[c] = "ListTables" /\ AskForNames(c)

Step(c) ==
    \/ RejectItem(c)
    \/ CreateTable(c)
    \/ DescribeTable(c)
    \/ DeleteTable(c)
    \/ ChangeItems(c)
    \/ Scan(c)
    \/ ListTables(c)
    \/ DescribeNext(c)
    \/ ListDone(c)

Next ==
    \/ \E c \in Client : Request(c) \/ Step(c) \/ CallFails(c)
    \/ \E n \in Name : Activate(n) \/ Vanish(n)

Spec == Init /\ [][Next]_vars

----------------------------------------------------------------------------
(* Properties: those of ServiceRequests, and                               *)

\* Types.
TypeOK == TypeOKFor(ProviderOp, Kind)

=============================================================================
