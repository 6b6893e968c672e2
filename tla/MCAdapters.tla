----------------------------- MODULE MCAdapters -----------------------------
(***************************************************************************)
(* The parts of an adapter that share no state, side by side: a behaviour  *)
(* is one of one part, the others rest in one initial state of theirs.     *)
(***************************************************************************)
EXTENDS HttpCall, RecordCalls, BatchReads, PolledStatement, QueryPages, FilterSemantics, RecordValues, CursorHandles, Transactions, KeyDiscovery, MetadataConsent
VARIABLE part
adapterVars == <<part, callVars, recordVars, batchVars, statementVars, pageVars, filterVars, valueVars, handleVars, txVars, discoveryVars, consentVars>>

(* Columns with ties, with Nulls at either end, and one without either.     *)
FourRows == {<<1, 1, 2, 1>>, <<0, 1, 2, 2>>, <<2, 0, 1, 0>>, <<3, 1, 2, 4>>}
RowidTable == [kind |-> "table", int |-> TRUE, strict |-> FALSE, pk |-> {"id"}, desc |-> FALSE, index |-> "none", otherIndex |-> FALSE]
AskedLists == {<<1, 2, 3>>, <<1, 2, 1>>}

AdaptersInit ==
  /\ part \in {"call", "record", "batch", "statement", "pages", "filter", "values", "handles", "tx", "keys", "consent"}
  /\ part # "call" => adapter = "libsql" /\ write = FALSE /\ deaf = FALSE
  /\ CallInit
  /\ part # "record" => writes = CosmosWrites /\ record = NoRecord
  /\ RecordInit
  /\ part # "batch" => batch = CosmosBatch /\ asked = <<1, 2, 1>> /\ there = {}
  /\ BatchInit
  /\ part # "statement" => statement = SnowflakeStatement /\ chunks = 1
  /\ StatementInit
  /\ part # "pages" => source = "ovdb" /\ ask = [limit |-> 1, dir |-> "none", offset |-> 0] /\ values = <<1, 1, 2, 1>> /\ present = Steady
  /\ PagesInit
  /\ part # "filter" => engine = "ovdb" /\ cond = [op |-> "==", one |-> 1, list |-> {}] /\ stored = {1, 3, Null, NoField}
  /\ FilterInit
  /\ part # "values" => format = "ovdb" /\ written = "text"
  /\ ValuesInit
  /\ part # "handles" => registry = "typesense"
  /\ HandlesInit
  /\ part # "tx" => txKind = "ovdb" /\ records = [k \in TxKeys |-> 0]
  /\ TxInit
  /\ part # "keys" => catalog = "libsql" /\ situation = "plain" /\ place = 1 /\ contract = TRUE /\ schema = RowidTable
  /\ DiscoveryInit
  /\ ConsentInit

CallStep(A) == part = "call" /\ A /\ UNCHANGED <<part, recordVars, batchVars, statementVars, pageVars, filterVars, valueVars, handleVars, txVars, discoveryVars, consentVars>>
AdaptersNext ==
  \/ CallStep(CallNext)
  \/ part = "record" /\ RecordNext /\ UNCHANGED <<part, callVars, batchVars, statementVars, pageVars, filterVars, valueVars, handleVars, txVars, discoveryVars, consentVars>>
  \/ part = "batch" /\ BatchNext /\ UNCHANGED <<part, callVars, recordVars, statementVars, pageVars, filterVars, valueVars, handleVars, txVars, discoveryVars, consentVars>>
  \/ part = "statement" /\ StatementNext /\ UNCHANGED <<part, callVars, recordVars, batchVars, pageVars, filterVars, valueVars, handleVars, txVars, discoveryVars, consentVars>>
  \/ part = "pages" /\ PagesNext /\ UNCHANGED <<part, callVars, recordVars, batchVars, statementVars, filterVars, valueVars, handleVars, txVars, discoveryVars, consentVars>>
  \/ part = "filter" /\ FilterNext /\ UNCHANGED <<part, callVars, recordVars, batchVars, statementVars, pageVars, valueVars, handleVars, txVars, discoveryVars, consentVars>>
  \/ part = "values" /\ ValuesNext /\ UNCHANGED <<part, callVars, recordVars, batchVars, statementVars, pageVars, filterVars, handleVars, txVars, discoveryVars, consentVars>>
  \/ part = "handles" /\ HandlesNext /\ UNCHANGED <<part, callVars, recordVars, batchVars, statementVars, pageVars, filterVars, valueVars, txVars, discoveryVars, consentVars>>
  \/ part = "tx" /\ TxNext /\ UNCHANGED <<part, callVars, recordVars, batchVars, statementVars, pageVars, filterVars, valueVars, handleVars, discoveryVars, consentVars>>
  \/ part = "keys" /\ DiscoveryNext /\ UNCHANGED <<part, callVars, recordVars, batchVars, statementVars, pageVars, filterVars, valueVars, handleVars, txVars, consentVars>>
  \/ part = "consent" /\ ConsentNext /\ UNCHANGED <<part, callVars, recordVars, batchVars, statementVars, pageVars, filterVars, valueVars, handleVars, txVars, discoveryVars>>
AdaptersSpec ==
  /\ AdaptersInit /\ [][AdaptersNext]_adapterVars
  /\ WF_adapterVars(CallStep(Begin)) /\ WF_adapterVars(CallStep(Deadline))
  /\ WF_adapterVars(CallStep(FetchAborted)) /\ WF_adapterVars(CallStep(StreamAborted))
  /\ WF_adapterVars(CallStep(~deaf /\ CancelSettles))

(* Every variable of every part has its type. *)
AdaptersTypeOK == CallTypeOK /\ RecordTypeOK /\ BatchTypeOK /\ StatementTypeOK /\ PagesTypeOK /\ FilterTypeOK /\ ValuesTypeOK /\ HandlesTypeOK /\ TxTypeOK /\ DiscoveryTypeOK /\ ConsentTypeOK
=============================================================================
