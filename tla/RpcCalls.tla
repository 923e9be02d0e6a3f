------------------------------ MODULE RpcCalls ------------------------------
(***************************************************************************)
(* The JSON-RPC commands of package btcjson (btcjson/*cmds.go and           *)
(* *ntfns.go) and the codec that turns a command into the positional        *)
(* parameters of a request and back (cmdparse.go, register.go).             *)
(*                                                                         *)
(* A command struct is abstracted to its method and, for every field, what  *)
(* the codec tells apart: "r" a required field, "o" an optional one (a      *)
(* pointer) without a default, anything else an optional one and the        *)
(* literal of its jsonrpcdefault tag.  A parameter is a string: "v" some    *)
(* given value, a literal where a handler looks at it, or "nil" for a nil   *)
(* pointer, which is JSON null on the wire.                                 *)
(***************************************************************************)
EXTENDS Integers, Sequences, FiniteSets

\* The widest integer type (64 bits in the code), as a number of bits.
CONSTANT WordBits
RpcCommandsAssumption == WordBits \in 2..16

C(method, fields) == [method |-> method, fields |-> fields]

-----------------------------------------------------------------------------
\* The registered commands, by file and in the order of the structs.

ChainCmds1 == {
    C("addnode", <<"r", "r">>), C("createrawtransaction", <<"r", "r", "o">>),
    C("decoderawtransaction", <<"r">>), C("decodescript", <<"r">>),
    C("deriveaddresses", <<"r", "o">>), C("fundrawtransaction", <<"r", "r", "o">>),
    C("getaddednodeinfo", <<"r", "o">>)}

ChainCmds2 == {
    C("getbestblockhash", <<>>), C("getblock", <<"r", "1">>), C("getblockchaininfo", <<>>),
    C("getblockcount", <<>>), C("getblockfilter", <<"r", "o">>), C("getblockhash", <<"r">>),
    C("getblockheader", <<"r", "true">>), C("getblockstats", <<"r", "o">>)}

ChainCmds3 == {
    C("getblocktemplate", <<"o">>), C("getcfilter", <<"r", "r">>),
    C("getcfilterheader", <<"r", "r">>), C("getchaintips", <<>>),
    C("getchaintxstats", <<"o", "o">>), C("getconnectioncount", <<>>),
    C("getdescriptorinfo", <<"r">>), C("getdifficulty", <<>>), C("getgenerate", <<>>),
    C("gethashespersec", <<>>), C("getinfo", <<>>), C("getmempoolentry", <<"r">>)}

ChainCmds4 == {
    C("getmempoolinfo", <<>>), C("getmininginfo", <<>>), C("getnetworkinfo", <<>>),
    C("getnettotals", <<>>), C("getnetworkhashps", <<"120", "-1">>), C("getnodeaddresses", <<"1">>),
    C("getpeerinfo", <<>>), C("getrawmempool", <<"false">>), C("getrawtransaction", <<"r", "0">>),
    C("gettxout", <<"r", "r", "true">>)}

ChainCmds5 == {
    C("gettxoutproof", <<"r", "o">>), C("gettxoutsetinfo", <<>>), C("getwork", <<"o">>),
    C("help", <<"o">>), C("invalidateblock", <<"r">>), C("ping", <<>>), C("preciousblock", <<"r">>),
    C("reconsiderblock", <<"r">>),
    C("searchrawtransactions", <<"r", "1", "0", "100", "0", "false", "o">>)}

ChainCmds6 == {
    C("sendrawtransaction", <<"r", "false">>), C("setgenerate", <<"r", "-1">>),
    C("signmessagewithprivkey", <<"r", "r">>), C("stop", <<>>), C("submitblock", <<"r", "o">>),
    C("uptime", <<>>), C("validateaddress", <<"r">>), C("verifychain", <<"3", "288">>)}

ChainCmds7 == {
    C("verifymessage", <<"r", "r", "r">>), C("verifytxoutproof", <<"r">>),
    C("testmempoolaccept", <<"r", "r">>), C("gettxspendingprevout", <<"r">>)}

PackageCmds == {
    C("submitpackage", <<"r", "o", "o">>)}

WalletCmds1 == {
    C("addmultisigaddress", <<"r", "r", "o">>), C("addwitnessaddress", <<"r">>),
    C("createmultisig", <<"r", "r">>), C("createwallet", <<"r", "false", "false", "", "false">>),
    C("dumpprivkey", <<"r">>), C("encryptwallet", <<"r">>),
    C("estimatesmartfee", <<"r", "CONSERVATIVE">>), C("estimatefee", <<"r">>),
    C("estimatepriority", <<"r">>)}

WalletCmds2 == {
    C("getaccount", <<"r">>), C("getaccountaddress", <<"r">>), C("getaddressesbyaccount", <<"r">>),
    C("getaddressinfo", <<"r">>), C("getbalance", <<"o", "1">>), C("getbalances", <<>>),
    C("getnewaddress", <<"o", "o">>), C("getrawchangeaddress", <<"o", "o">>),
    C("getreceivedbyaccount", <<"r", "1">>), C("getreceivedbyaddress", <<"r", "1">>)}

WalletCmds3 == {
    C("gettransaction", <<"r", "false">>), C("getwalletinfo", <<>>), C("backupwallet", <<"r">>),
    C("unloadwallet", <<"o">>), C("loadwallet", <<"r">>), C("importprivkey", <<"r", "o", "true">>),
    C("keypoolrefill", <<"100">>), C("listaccounts", <<"1">>), C("listaddressgroupings", <<>>),
    C("listlockunspent", <<>>), C("listreceivedbyaccount", <<"1", "false", "false">>)}

WalletCmds4 == {
    C("listreceivedbyaddress", <<"1", "false", "false">>),
    C("listsinceblock", <<"o", "1", "false">>), C("listtransactions", <<"o", "10", "0", "false">>),
    C("listunspent", <<"1", "9999999", "o">>), C("lockunspent", <<"r", "r">>),
    C("move", <<"r", "r", "r", "1", "o">>), C("sendfrom", <<"r", "r", "r", "1", "o", "o">>)}

WalletCmds5 == {
    C("sendmany", <<"r", "r", "1", "o">>), C("sendtoaddress", <<"r", "r", "o", "o">>),
    C("setaccount", <<"r", "r">>), C("settxfee", <<"r">>), C("signmessage", <<"r", "r">>),
    C("signrawtransaction", <<"r", "o", "o", "ALL">>),
    C("signrawtransactionwithwallet", <<"r", "o", "ALL">>)}

WalletCmds6 == {
    C("walletlock", <<>>), C("walletpassphrase", <<"r", "r">>),
    C("walletpassphrasechange", <<"r", "r">>)}

WalletCmds7 == {
    C("importmulti", <<"r", "o">>), C("walletcreatefundedpsbt", <<"r", "r", "o", "o", "o">>),
    C("walletprocesspsbt", <<"r", "true", "ALL", "o">>)}

ChainWsCmds1 == {
    C("authenticate", <<"r", "r">>), C("notifyblocks", <<>>), C("stopnotifyblocks", <<>>),
    C("notifynewtransactions", <<"false">>), C("session", <<>>),
    C("stopnotifynewtransactions", <<>>), C("notifyreceived", <<"r">>),
    C("loadtxfilter", <<"r", "r", "r">>), C("notifyspent", <<"r">>),
    C("stopnotifyreceived", <<"r">>)}

ChainWsCmds2 == {
    C("stopnotifyspent", <<"r">>), C("rescan", <<"r", "r", "r", "o">>), C("rescanblocks", <<"r">>)}

WalletWsCmds == {
    C("createencryptedwallet", <<"r">>), C("exportwatchingwallet", <<"o", "false">>),
    C("getunconfirmedbalance", <<"o">>), C("listaddresstransactions", <<"r", "o">>),
    C("listalltransactions", <<"o">>), C("recoveraddresses", <<"r", "r">>),
    C("walletislocked", <<>>)}

BtcdCmds == {
    C("node", <<"r", "r", "o">>), C("debuglevel", <<"r">>),
    C("generatetoaddress", <<"r", "r", "1000000">>), C("generate", <<"r">>),
    C("getbestblock", <<>>), C("getcurrentnet", <<>>), C("getheaders", <<"r", "r">>),
    C("version", <<>>)}

WalletExtCmds == {
    C("createnewaccount", <<"r">>), C("dumpwallet", <<"r">>),
    C("importaddress", <<"r", "r", "true">>), C("importpubkey", <<"r", "true">>),
    C("importwallet", <<"r">>), C("renameaccount", <<"r", "r">>)}

ObtcCmds == {
    C("listexpiring", <<"o", "o", "o", "o", "o">>), C("getexpiryindexstats", <<>>),
    C("getreapplan", <<>>), C("getexpirycommitment", <<>>)}

ChainNtfns1 == {
    C("blockconnected", <<"r", "r", "r">>), C("blockdisconnected", <<"r", "r", "r">>),
    C("filteredblockconnected", <<"r", "r", "r">>), C("filteredblockdisconnected", <<"r", "r">>),
    C("recvtx", <<"r", "o">>), C("redeemingtx", <<"r", "o">>),
    C("rescanfinished", <<"r", "r", "r">>)}

ChainNtfns2 == {
    C("rescanprogress", <<"r", "r", "r">>), C("txaccepted", <<"r", "r">>),
    C("txacceptedverbose", <<"r">>), C("relevanttxaccepted", <<"r">>)}

WalletNtfns == {
    C("accountbalance", <<"r", "r", "r">>), C("btcdconnected", <<"r">>),
    C("walletlockstate", <<"r">>), C("newtx", <<"r", "r">>)}

Commands == UNION {
    ChainCmds1, ChainCmds2, ChainCmds3, ChainCmds4, ChainCmds5, ChainCmds6, ChainCmds7,
    PackageCmds, WalletCmds1, WalletCmds2, WalletCmds3, WalletCmds4, WalletCmds5,
    WalletCmds6, WalletCmds7, ChainWsCmds1, ChainWsCmds2, WalletWsCmds, BtcdCmds,
    WalletExtCmds, ObtcCmds, ChainNtfns1, ChainNtfns2, WalletNtfns}

-----------------------------------------------------------------------------
\* Registration

Optional(field) == field # "r"
HasDefault(field) == field \notin {"r", "o"}

\* RegisterCmd: a field after an optional one must be optional as well; the
\* number of required fields and the defaults are what the codec keeps.
RegisterCmd(cmd) ==
    LET n == Len(cmd.fields)
        opt == {i \in 1..n : Optional(cmd.fields[i])}
    IN  IF \E i, j \in 1..n : i \in opt /\ j > i /\ j \notin opt
        THEN [ok |-> FALSE, maxParams |-> 0, numReqParams |-> 0, defaults |-> {}]
        ELSE [ok |-> TRUE, maxParams |-> n, numReqParams |-> n - Cardinality(opt),
              defaults |-> {i \in 1..n : HasDefault(cmd.fields[i])}]

methodToConcreteType(method) == CHOOSE c \in Commands : c.method = method
Registered(method) == \E c \in Commands : c.method = method

-----------------------------------------------------------------------------
\* From a command to the parameters of a request and back

\* makeParams: the fields up to the last one that is not a nil pointer.
makeParams(fields) ==
    LET given == {i \in 1..Len(fields) : fields[i] # "nil"}
    IN  IF given = {} THEN <<>>
        ELSE SubSeq(fields, 1, CHOOSE i \in given : \A j \in given : j <= i)

MarshalCmd(method, fields) == [method |-> method, params |-> makeParams(fields)]

checkNumParams(n, info) == n >= info.numReqParams /\ n <= info.maxParams

\* populateDefaults: the fields behind the last parameter.
populateDefaults(n, info, cmd) ==
    [i \in 1..info.maxParams |-> IF i > n /\ i \in info.defaults THEN cmd.fields[i] ELSE "nil"]

\* UnmarshalCmd: the fields the handler is given, or an error for a method
\* that is not registered or a wrong number of parameters.  A null leaves a
\* pointer nil.
UnmarshalCmd(r) ==
    IF ~Registered(r.method) THEN [ok |-> FALSE, fields |-> <<>>]
    ELSE LET cmd == methodToConcreteType(r.method)
             info == RegisterCmd(cmd)
             n == Len(r.params)
             rest == populateDefaults(n, info, cmd)
         IN  IF ~(info.ok /\ checkNumParams(n, info)) THEN [ok |-> FALSE, fields |-> <<>>]
             ELSE [ok |-> TRUE,
                   fields |-> [i \in 1..info.maxParams |-> IF i <= n THEN r.params[i] ELSE rest[i]]]

-----------------------------------------------------------------------------
\* NewCmd: a command from loosely typed arguments (btcctl passes its command
\* line as strings)

\* A type is a kind, a width for the integers and whether it is a pointer.
\* A value is a number for the numeric kinds and, for a string, what parsing
\* it gives: what |-> "number", "bool", "null", "json" or "text" (a bool
\* has n |-> 0 or 1).
Numeric == {"int", "uint", "float"}
isNumeric(kind) == kind \in Numeric

typesMaybeCompatible(dest, src) ==
    \/ dest.kind = src.kind /\ dest.bits = src.bits
    \/ isNumeric(dest.kind) /\ isNumeric(src.kind)
    \/ src.kind = "string" /\ dest.kind \in Numeric \cup {"bool", "string", "struct"}

Pow2(n) == 2 ^ n
MinOf(type) == IF type.kind = "int" THEN - Pow2(type.bits - 1) ELSE 0
MaxOf(type) == IF type.kind = "int" THEN Pow2(type.bits - 1) - 1 ELSE Pow2(type.bits) - 1

\* What an integer of a type holds after it is set to n.
Stored(type, n) ==
    LET m == n % Pow2(type.bits)
    IN  IF type.kind = "int" /\ m >= Pow2(type.bits - 1) THEN m - Pow2(type.bits) ELSE m
Word(kind) == [kind |-> kind, bits |-> WordBits, ptr |-> FALSE]
Overflows(type, n) == n < MinOf(type) \/ n > MaxOf(type)

Set(x) == [ok |-> TRUE, value |-> x]
Refused == [ok |-> FALSE, value |-> [what |-> "nil"]]
Number(n) == [what |-> "number", n |-> n]

\* A signed source: a negative number never fits an unsigned destination.
FromInt(dest, n) ==
    CASE dest.kind = "int" -> IF Overflows(dest, n) THEN Refused ELSE Set(Number(Stored(dest, n)))
      [] dest.kind = "uint" -> IF n < 0 \/ Overflows(dest, Stored(Word("uint"), n))
                               THEN Refused ELSE Set(Number(Stored(dest, n)))
      [] OTHER -> Refused

\* An unsigned source: above the largest signed number it would turn negative.
FromUint(dest, n) ==
    CASE dest.kind = "int" -> IF n > MaxOf(Word("int")) \/ Overflows(dest, Stored(Word("int"), n))
                              THEN Refused ELSE Set(Number(Stored(dest, n)))
      [] dest.kind = "uint" -> IF Overflows(dest, n) THEN Refused ELSE Set(Number(Stored(dest, n)))
      [] OTHER -> Refused

FromFloat(dest, n) == IF dest.kind = "float" THEN Set(Number(n)) ELSE Refused

\* A string is parsed as the destination asks: an integer at the width of
\* the machine word first.
FromString(dest, v) ==
    CASE dest.kind = "bool" -> IF v.what = "bool" \/ (v.what = "number" /\ v.n \in {0, 1})
                               THEN Set([what |-> "bool", n |-> v.n]) ELSE Refused
      [] dest.kind \in {"int", "uint"} ->
            IF v.what # "number" \/ Overflows(Word(dest.kind), v.n) \/ Overflows(dest, v.n)
            THEN Refused ELSE Set(Number(Stored(dest, v.n)))
      [] dest.kind = "float" -> IF v.what = "number" THEN Set(v) ELSE Refused
      [] dest.kind = "string" -> Set(v)
      [] dest.kind = "struct" -> IF v.what \in {"json", "null"} THEN Set(v) ELSE Refused
      [] OTHER -> Refused

\* assignField: the same type is set as it is, the string "null" leaves an
\* optional field nil, everything else is converted.
assignField(dest, src, v) ==
    CASE ~typesMaybeCompatible(dest, src) -> Refused
      [] dest.kind = src.kind /\ dest.bits = src.bits /\ (dest.ptr => src.ptr) -> Set(v)
      [] dest.ptr /\ v.what = "null" -> Set([what |-> "nil"])
      [] dest.kind = src.kind /\ dest.bits = src.bits -> Set(v)
      [] src.kind = "int" -> FromInt(dest, v.n)
      [] src.kind = "uint" -> FromUint(dest, v.n)
      [] src.kind = "float" -> FromFloat(dest, v.n)
      [] OTHER -> FromString(dest, v)

-----------------------------------------------------------------------------
(***************************************************************************)
(* The calls of package rpcclient against the handlers of the node's RPC    *)
(* server: every exported call builds a command (btcjson.New*Cmd), which is *)
(* marshalled, parsed and handled by rpcserver.go, and unmarshals the reply *)
(* into a Go type of its own choosing.  The two ends agree only through the *)
(* command's fields, their defaults, and the types; nothing but a run of    *)
(* every call would show a disagreement.                                    *)
(*                                                                         *)
(* A call is F(name, method, arguments, the type it unmarshals): "?" is an  *)
(* argument the caller may leave nil, "?mode" one that may also ask for a   *)
(* proposal.  Methods the node leaves to a wallet  *)
(* end in its error; a call's transport is RpcClient.tla's subject.         *)
(***************************************************************************)

F(name, method, args, type) == [name |-> name, method |-> method, args |-> args, type |-> type]

ChainCalls1 == {
    F("GetBestBlockHash", "getbestblockhash", <<>>, "string"),
    F("GetBlock", "getblock", <<"v", "0">>, "string")}

ChainCalls2 == {
    F("GetBlockVerbose", "getblock", <<"v", "1">>, "GetBlockVerboseResult"),
    F("GetBlockVerboseTx", "getblock", <<"v", "2">>, "GetBlockVerboseTxResult"),
    F("GetBlockCount", "getblockcount", <<>>, "int64")}

ChainCalls3 == {
    F("GetChainTxStats", "getchaintxstats", <<"nil", "nil">>, "GetChainTxStatsResult"),
    F("GetChainTxStatsNBlocks", "getchaintxstats", <<"v", "nil">>, "GetChainTxStatsResult"),
    F("GetChainTxStatsNBlocksBlockHash", "getchaintxstats", <<"v", "v">>, "GetChainTxStatsResult"),
    F("GetDifficulty", "getdifficulty", <<>>, "float64")}

ChainCalls4 == {
    F("GetBlockChainInfo", "getblockchaininfo", <<>>, "GetBlockChainInfoResult"),
    F("GetBlockFilter", "getblockfilter", <<"v", "?">>, "GetBlockFilterResult")}

ChainCalls5 == {
    F("GetBlockHash", "getblockhash", <<"v">>, "string"),
    F("GetBlockHeader", "getblockheader", <<"v", "false">>, "string"),
    F("GetBlockHeaderVerbose", "getblockheader", <<"v", "true">>, "GetBlockHeaderVerboseResult")}

ChainCalls6 == {
    F("GetChainTips", "getchaintips", <<>>, "list of GetChainTipsResult"),
    F("GetMempoolEntry", "getmempoolentry", <<"v">>, "GetMempoolEntryResult"),
    F("GetRawMempool", "getrawmempool", <<"false">>, "list of string")}

ChainCalls7 == {
    F("GetRawMempoolVerbose", "getrawmempool", <<"true">>, "map of GetRawMempoolVerboseResult"),
    F("EstimateFee", "estimatefee", <<"v">>, "float64"),
    F("EstimateSmartFee", "estimatesmartfee", <<"v", "?">>, "EstimateSmartFeeResult")}

ChainCalls8 == {
    F("VerifyChain", "verifychain", <<"nil", "nil">>, "bool"),
    F("VerifyChainLevel", "verifychain", <<"v", "nil">>, "bool"),
    F("VerifyChainBlocks", "verifychain", <<"v", "v">>, "bool"),
    F("GetTxOut", "gettxout", <<"v", "v", "v">>, "GetTxOutResult")}

ChainCalls9 == {
    F("GetTxOutSetInfo", "gettxoutsetinfo", <<>>, "GetTxOutSetInfoResult"),
    F("RescanBlocks", "rescanblocks", <<"v">>, "list of RescannedBlock"),
    F("InvalidateBlock", "invalidateblock", <<"v">>, "ignored")}

ChainCalls10 == {
    F("GetCFilter", "getcfilter", <<"v", "v">>, "string"),
    F("GetCFilterHeader", "getcfilterheader", <<"v", "v">>, "string"),
    F("GetBlockStats", "getblockstats", <<"v", "?">>, "GetBlockStatsResult")}

ChainCalls11 == {
    F("DeriveAddresses", "deriveaddresses", <<"v", "?">>, "DeriveAddressesResult"),
    F("GetDescriptorInfo", "getdescriptorinfo", <<"v">>, "GetDescriptorInfoResult"),
    F("ReconsiderBlock", "reconsiderblock", <<"v">>, "ignored")}

MiningCalls1 == {
    F("Generate", "generate", <<"v">>, "list of string"),
    F("GenerateToAddress", "generatetoaddress", <<"v", "v", "?">>, "list of string"),
    F("GetGenerate", "getgenerate", <<>>, "bool")}

MiningCalls2 == {
    F("SetGenerate", "setgenerate", <<"v", "v">>, "ignored"),
    F("GetHashesPerSec", "gethashespersec", <<>>, "int64"),
    F("GetMiningInfo", "getmininginfo", <<>>, "GetMiningInfoResult"),
    F("GetNetworkHashPS", "getnetworkhashps", <<"nil", "nil">>, "float64")}

MiningCalls3 == {
    F("GetNetworkHashPS2", "getnetworkhashps", <<"v", "nil">>, "float64"),
    F("GetNetworkHashPS3", "getnetworkhashps", <<"v", "v">>, "float64"),
    F("GetWork", "getwork", <<"nil">>, "GetWorkResult"),
    F("GetWorkSubmit", "getwork", <<"v">>, "bool")}

MiningCalls4 == {
    F("SubmitBlock", "submitblock", <<"v", "?">>, "null or string"),
    F("GetBlockTemplate", "getblocktemplate", <<"?mode">>, "GetBlockTemplateResult")}

NetCalls1 == {
    F("AddNode", "addnode", <<"v", "v">>, "ignored"),
    F("Node", "node", <<"v", "v", "?">>, "ignored"),
    F("GetAddedNodeInfo", "getaddednodeinfo", <<"true", "v">>, "list of GetAddedNodeInfoResult"),
    F("GetAddedNodeInfoNoDNS", "getaddednodeinfo", <<"false", "v">>, "list of string")}

NetCalls2 == {
    F("GetConnectionCount", "getconnectioncount", <<>>, "int64"),
    F("Ping", "ping", <<>>, "ignored"),
    F("GetNetworkInfo", "getnetworkinfo", <<>>, "GetNetworkInfoResult"),
    F("GetNodeAddresses", "getnodeaddresses", <<"?">>, "list of GetNodeAddressesResult")}

NetCalls3 == {
    F("GetPeerInfo", "getpeerinfo", <<>>, "list of GetPeerInfoResult"),
    F("GetNetTotals", "getnettotals", <<>>, "GetNetTotalsResult")}

TxCalls1 == {
    F("GetRawTransaction", "getrawtransaction", <<"v", "0">>, "string"),
    F("GetRawTransactionVerbose", "getrawtransaction", <<"v", "1">>, "TxRawResult"),
    F("DecodeRawTransaction", "decoderawtransaction", <<"v">>, "TxRawResult")}

TxCalls2 == {
    F("FundRawTransaction", "fundrawtransaction", <<"v", "v", "?">>, "FundRawTransactionResult"),
    F("CreateRawTransaction", "createrawtransaction", <<"v", "v", "?">>, "string")}

TxCalls3 == {
    F("SendRawTransaction", "sendrawtransaction", <<"v", "v">>, "string"),
    F("SignRawTransaction", "signrawtransaction", <<"v", "nil", "nil", "nil">>,
      "SignRawTransactionResult")}

TxCalls4 == {
    F("SignRawTransaction2", "signrawtransaction", <<"v", "v", "nil", "nil">>,
      "SignRawTransactionResult"),
    F("SignRawTransaction3", "signrawtransaction", <<"v", "v", "v", "nil">>,
      "SignRawTransactionResult")}

TxCalls5 == {
    F("SignRawTransactionWithWallet", "signrawtransactionwithwallet", <<"v", "nil", "nil">>,
      "SignRawTransactionWithWalletResult"),
    F("SignRawTransactionWithWallet2", "signrawtransactionwithwallet", <<"v", "v", "nil">>,
      "SignRawTransactionWithWalletResult")}

TxCalls6 == {
    F("SearchRawTransactions", "searchrawtransactions", <<"v", "0", "v", "v", "nil", "v", "v">>,
      "list of string"),
    F("SearchRawTransactionsVerbose", "searchrawtransactions", <<"v", "1", "v", "v", "v", "v", "?">>,
      "list of SearchRawTransactionsResult")}

TxCalls7 == {
    F("DecodeScript", "decodescript", <<"v">>, "DecodeScriptResult")}

TxCalls8 == {
    F("TestMempoolAccept", "testmempoolaccept", <<"v", "v">>, "list of TestMempoolAcceptResult")}

TxCalls9 == {
    F("GetTxSpendingPrevOut", "gettxspendingprevout", <<"v">>,
      "list of GetTxSpendingPrevOutResult")}

ExtensionCalls1 == {
    F("DebugLevel", "debuglevel", <<"v">>, "string"),
    F("CreateEncryptedWallet", "createencryptedwallet", <<"v">>, "ignored"),
    F("ListAddressTransactions", "listaddresstransactions", <<"v", "v">>,
      "list of ListTransactionsResult")}

ExtensionCalls2 == {
    F("GetBestBlock", "getbestblock", <<>>, "GetBestBlockResult"),
    F("GetCurrentNet", "getcurrentnet", <<>>, "int64")}

ExtensionCalls3 == {
    F("GetHeaders", "getheaders", <<"v", "v">>, "list of string"),
    F("ExportWatchingWallet", "exportwatchingwallet", <<"v", "true">>, "map")}

ExtensionCalls4 == {
    F("Session", "session", <<>>, "SessionResult"),
    F("Version", "version", <<>>, "map of VersionResult")}

ObtcCalls == {
    F("ListExpiring", "listexpiring", <<"?", "?", "?", "?", "?">>, "ListExpiringResult"),
    F("GetExpiryIndexStats", "getexpiryindexstats", <<>>, "ExpiryIndexStatsResult"),
    F("GetReapPlan", "getreapplan", <<>>, "GetReapPlanResult"),
    F("GetExpiryCommitment", "getexpirycommitment", <<>>, "GetExpiryCommitmentResult")}

WalletCalls1 == {
    F("GetTransaction", "gettransaction", <<"v", "nil">>, "GetTransactionResult"),
    F("GetTransactionWatchOnly", "gettransaction", <<"v", "v">>, "GetTransactionResult"),
    F("ListTransactions", "listtransactions", <<"v", "nil", "nil", "nil">>,
      "list of ListTransactionsResult"),
    F("ListTransactionsCount", "listtransactions", <<"v", "v", "nil", "nil">>,
      "list of ListTransactionsResult"),
    F("ListTransactionsCountFrom", "listtransactions", <<"v", "v", "v", "nil">>,
      "list of ListTransactionsResult")}

WalletCalls2 == {
    F("ListTransactionsCountFromWatchOnly", "listtransactions", <<"v", "v", "v", "v">>,
      "list of ListTransactionsResult"),
    F("ListUnspent", "listunspent", <<"nil", "nil", "nil">>, "list of ListUnspentResult"),
    F("ListUnspentMin", "listunspent", <<"v", "nil", "nil">>, "list of ListUnspentResult"),
    F("ListUnspentMinMax", "listunspent", <<"v", "v", "nil">>, "list of ListUnspentResult"),
    F("ListUnspentMinMaxAddresses", "listunspent", <<"v", "v", "v">>, "list of ListUnspentResult")}

WalletCalls3 == {
    F("ListSinceBlock", "listsinceblock", <<"?", "nil", "nil">>, "ListSinceBlockResult"),
    F("ListSinceBlockMinConf", "listsinceblock", <<"?", "v", "nil">>, "ListSinceBlockResult"),
    F("ListSinceBlockMinConfWatchOnly", "listsinceblock", <<"?", "v", "v">>,
      "ListSinceBlockResult"),
    F("LockUnspent", "lockunspent", <<"v", "v">>, "ignored")}

WalletCalls4 == {
    F("ListLockUnspent", "listlockunspent", <<>>, "list of TransactionInput"),
    F("SetTxFee", "settxfee", <<"v">>, "ignored"),
    F("SendToAddress", "sendtoaddress", <<"v", "v", "nil", "nil">>, "string")}

WalletCalls5 == {
    F("SendToAddressComment", "sendtoaddress", <<"v", "v", "v", "v">>, "string"),
    F("SendFrom", "sendfrom", <<"v", "v", "v", "nil", "nil", "nil">>, "string"),
    F("SendFromMinConf", "sendfrom", <<"v", "v", "v", "v", "nil", "nil">>, "string"),
    F("SendFromComment", "sendfrom", <<"v", "v", "v", "v", "v", "v">>, "string")}

WalletCalls6 == {
    F("SendMany", "sendmany", <<"v", "v", "nil", "nil">>, "string"),
    F("SendManyMinConf", "sendmany", <<"v", "v", "v", "nil">>, "string"),
    F("SendManyComment", "sendmany", <<"v", "v", "v", "v">>, "string")}

WalletCalls7 == {
    F("AddMultisigAddress", "addmultisigaddress", <<"v", "v", "v">>, "string"),
    F("CreateMultisig", "createmultisig", <<"v", "v">>, "CreateMultiSigResult"),
    F("CreateNewAccount", "createnewaccount", <<"v">>, "ignored")}

WalletCalls8 == {
    F("CreateWallet", "createwallet", <<"v", "?", "?", "?", "?">>, "CreateWalletResult"),
    F("GetAddressInfo", "getaddressinfo", <<"v">>, "GetAddressInfoResult")}

WalletCalls9 == {
    F("GetNewAddress", "getnewaddress", <<"v", "nil">>, "string"),
    F("GetNewAddressType", "getnewaddress", <<"v", "v">>, "string"),
    F("GetRawChangeAddress", "getrawchangeaddress", <<"v", "nil">>, "string"),
    F("GetRawChangeAddressType", "getrawchangeaddress", <<"v", "v">>, "string")}

WalletCalls10 == {
    F("AddWitnessAddress", "addwitnessaddress", <<"v">>, "string"),
    F("GetAccountAddress", "getaccountaddress", <<"v">>, "string"),
    F("GetAccount", "getaccount", <<"v">>, "string")}

WalletCalls11 == {
    F("SetAccount", "setaccount", <<"v", "v">>, "ignored"),
    F("GetAddressesByAccount", "getaddressesbyaccount", <<"v">>, "list of string"),
    F("Move", "move", <<"v", "v", "v", "nil", "nil">>, "bool"),
    F("MoveMinConf", "move", <<"v", "v", "v", "v", "nil">>, "bool")}

WalletCalls12 == {
    F("MoveComment", "move", <<"v", "v", "v", "v", "v">>, "bool"),
    F("RenameAccount", "renameaccount", <<"v", "v">>, "ignored"),
    F("ValidateAddress", "validateaddress", <<"v">>, "ValidateAddressWalletResult"),
    F("KeyPoolRefill", "keypoolrefill", <<"nil">>, "ignored"),
    F("KeyPoolRefillSize", "keypoolrefill", <<"v">>, "ignored")}

WalletCalls13 == {
    F("ListAccounts", "listaccounts", <<"nil">>, "map of float64"),
    F("ListAccountsMinConf", "listaccounts", <<"v">>, "map of float64"),
    F("GetBalance", "getbalance", <<"v", "nil">>, "float64")}

WalletCalls14 == {
    F("GetBalanceMinConf", "getbalance", <<"v", "v">>, "float64"),
    F("GetBalances", "getbalances", <<>>, "GetBalancesResult"),
    F("GetReceivedByAccount", "getreceivedbyaccount", <<"v", "nil">>, "float64"),
    F("GetReceivedByAccountMinConf", "getreceivedbyaccount", <<"v", "v">>, "float64")}

WalletCalls15 == {
    F("GetUnconfirmedBalance", "getunconfirmedbalance", <<"v">>, "float64"),
    F("GetReceivedByAddress", "getreceivedbyaddress", <<"v", "nil">>, "float64"),
    F("GetReceivedByAddressMinConf", "getreceivedbyaddress", <<"v", "v">>, "float64")}

WalletCalls16 == {
    F("ListReceivedByAccount", "listreceivedbyaccount", <<"nil", "nil", "nil">>,
      "list of ListReceivedByAccountResult"),
    F("ListReceivedByAccountMinConf", "listreceivedbyaccount", <<"v", "nil", "nil">>,
      "list of ListReceivedByAccountResult"),
    F("ListReceivedByAccountIncludeEmpty", "listreceivedbyaccount", <<"v", "v", "nil">>,
      "list of ListReceivedByAccountResult"),
    F("ListReceivedByAddress", "listreceivedbyaddress", <<"nil", "nil", "nil">>,
      "list of ListReceivedByAddressResult"),
    F("ListReceivedByAddressMinConf", "listreceivedbyaddress", <<"v", "nil", "nil">>,
      "list of ListReceivedByAddressResult")}

WalletCalls17 == {
    F("ListReceivedByAddressIncludeEmpty", "listreceivedbyaddress", <<"v", "v", "nil">>,
      "list of ListReceivedByAddressResult"),
    F("WalletLock", "walletlock", <<>>, "ignored"),
    F("WalletPassphrase", "walletpassphrase", <<"v", "v">>, "ignored"),
    F("WalletPassphraseChange", "walletpassphrasechange", <<"v", "v">>, "ignored"),
    F("SignMessage", "signmessage", <<"v", "v">>, "string")}

WalletCalls18 == {
    F("VerifyMessage", "verifymessage", <<"v", "v", "v">>, "bool"),
    F("DumpPrivKey", "dumpprivkey", <<"v">>, "string"),
    F("ImportAddress", "importaddress", <<"v", "v", "nil">>, "ignored"),
    F("ImportAddressRescan", "importaddress", <<"v", "v", "v">>, "ignored")}

WalletCalls19 == {
    F("ImportMulti", "importmulti", <<"v", "?">>, "ImportMultiResults"),
    F("ImportPrivKey", "importprivkey", <<"v", "nil", "nil">>, "ignored"),
    F("ImportPrivKeyLabel", "importprivkey", <<"v", "v", "nil">>, "ignored"),
    F("ImportPrivKeyRescan", "importprivkey", <<"v", "v", "v">>, "ignored"),
    F("ImportPubKey", "importpubkey", <<"v", "nil">>, "ignored")}

WalletCalls20 == {
    F("ImportPubKeyRescan", "importpubkey", <<"v", "v">>, "ignored"),
    F("GetInfo", "getinfo", <<>>, "InfoWalletResult"),
    F("WalletCreateFundedPsbt", "walletcreatefundedpsbt", <<"v", "v", "?", "?", "?">>,
      "WalletCreateFundedPsbtResult")}

WalletCalls21 == {
    F("GetWalletInfo", "getwalletinfo", <<>>, "GetWalletInfoResult"),
    F("BackupWallet", "backupwallet", <<"v">>, "ignored"),
    F("DumpWallet", "dumpwallet", <<"v">>, "DumpWalletResult")}

WalletCalls22 == {
    F("ImportWallet", "importwallet", <<"v">>, "ignored"),
    F("UnloadWallet", "unloadwallet", <<"?">>, "ignored"),
    F("LoadWallet", "loadwallet", <<"v">>, "LoadWalletResult")}

NotifyCalls1 == {
    F("NotifyBlocks", "notifyblocks", <<>>, "ignored"),
    F("NotifySpent", "notifyspent", <<"v">>, "ignored")}

NotifyCalls2 == {
    F("NotifyNewTransactions", "notifynewtransactions", <<"v">>, "ignored"),
    F("NotifyReceived", "notifyreceived", <<"v">>, "ignored")}

NotifyCalls3 == {
    F("Rescan", "rescan", <<"v", "v", "v", "nil">>, "ignored")}

NotifyCalls4 == {
    F("RescanEndBlock", "rescan", <<"v", "v", "v", "v">>, "ignored"),
    F("LoadTxFilter", "loadtxfilter", <<"v", "v", "v">>, "ignored")}

Calls == UNION {
    ChainCalls1, ChainCalls2, ChainCalls3, ChainCalls4, ChainCalls5, ChainCalls6,
    ChainCalls7, ChainCalls8, ChainCalls9, ChainCalls10, ChainCalls11, MiningCalls1,
    MiningCalls2, MiningCalls3, MiningCalls4, NetCalls1, NetCalls2, NetCalls3, TxCalls1,
    TxCalls2, TxCalls3, TxCalls4, TxCalls5, TxCalls6, TxCalls7, TxCalls8, TxCalls9,
    ExtensionCalls1, ExtensionCalls2, ExtensionCalls3, ExtensionCalls4, ObtcCalls,
    WalletCalls1, WalletCalls2, WalletCalls3, WalletCalls4, WalletCalls5, WalletCalls6,
    WalletCalls7, WalletCalls8, WalletCalls9, WalletCalls10, WalletCalls11,
    WalletCalls12, WalletCalls13, WalletCalls14, WalletCalls15, WalletCalls16,
    WalletCalls17, WalletCalls18, WalletCalls19, WalletCalls20, WalletCalls21,
    WalletCalls22, NotifyCalls1, NotifyCalls2, NotifyCalls3, NotifyCalls4}

-----------------------------------------------------------------------------
\* The node's handlers

\* rpcAskWallet and rpcUnimplemented: recognised, answered by an error.
rpcAskWallet == {
    "addmultisigaddress", "backupwallet", "createencryptedwallet", "createmultisig",
    "dumpprivkey", "dumpwallet", "encryptwallet", "getaccount", "getaccountaddress",
    "getaddressesbyaccount", "getbalance", "getnewaddress", "getrawchangeaddress",
    "getreceivedbyaccount", "getreceivedbyaddress", "gettransaction", "gettxoutsetinfo",
    "getunconfirmedbalance", "getwalletinfo", "importprivkey", "importwallet",
    "keypoolrefill", "listaccounts", "listaddressgroupings", "listlockunspent",
    "listreceivedbyaccount", "listreceivedbyaddress", "listsinceblock", "listtransactions",
    "listunspent", "lockunspent", "move", "sendfrom", "sendmany", "sendtoaddress",
    "setaccount", "settxfee", "signmessage", "signrawtransaction", "walletlock",
    "walletpassphrase", "walletpassphrasechange"}

rpcUnimplemented == {"estimatepriority", "getmempoolentry", "getnetworkinfo", "getwork",
    "preciousblock"}

\* What a handler replies: H(method, i, values, type) when its i-th field is
\* one of values; i = 0 whatever the fields are.
H(method, i, values, type) == [method |-> method, i |-> i, values |-> values, type |-> type]
Plain(method, type) == H(method, 0, {}, type)

rpcHandlers == {
    Plain("addnode", "null"), Plain("createrawtransaction", "string"), Plain("debuglevel", "string"),
    Plain("decoderawtransaction", "TxRawDecodeResult"), Plain("decodescript", "DecodeScriptResult"),
    Plain("estimatefee", "float64"), Plain("generate", "list of string"),
    H("getaddednodeinfo", 1, {"false"}, "list of string"),
    H("getaddednodeinfo", 1, {"true", "v"}, "list of GetAddedNodeInfoResult"),
    Plain("getbestblock", "GetBestBlockResult"), Plain("getbestblockhash", "string"),
    H("getblock", 2, {"0"}, "string"), H("getblock", 2, {"1"}, "GetBlockVerboseResult"),
    H("getblock", 2, {"2", "v"}, "GetBlockVerboseResult, rawtx"), H("getblock", 2, {"nil"}, "panic"),
    Plain("getblockchaininfo", "GetBlockChainInfoResult"), Plain("getblockcount", "int64"),
    Plain("getblockhash", "string"), H("getblockheader", 2, {"false"}, "string"),
    H("getblockheader", 2, {"true", "nil"}, "GetBlockHeaderVerboseResult"),
    H("getblocktemplate", 1, {"nil", "v"}, "GetBlockTemplateResult"),
    H("getblocktemplate", 1, {"proposal"}, "string"), H("getblocktemplate", 1, {"proposal"}, "null"),
    Plain("getchaintips", "list of GetChainTipsResult"),
    Plain("getcfilter", "string"), Plain("getcfilterheader", "string"),
    Plain("getconnectioncount", "int32"), Plain("getcurrentnet", "uint32"),
    Plain("getdifficulty", "float64"), Plain("getgenerate", "bool"), Plain("gethashespersec", "int64"),
    Plain("getheaders", "list of string"), Plain("getinfo", "InfoChainResult"),
    Plain("getmempoolinfo", "GetMempoolInfoResult"), Plain("getmininginfo", "GetMiningInfoResult"),
    Plain("getnettotals", "GetNetTotalsResult"), Plain("getnetworkhashps", "float64"),
    Plain("getnodeaddresses", "list of GetNodeAddressesResult"), Plain("getpeerinfo", "list of GetPeerInfoResult"),
    H("getrawmempool", 1, {"true"}, "map of GetRawMempoolVerboseResult"),
    H("getrawmempool", 1, {"false", "nil"}, "list of string"),
    H("getrawtransaction", 2, {"0", "nil"}, "string"), H("getrawtransaction", 2, {"1", "v"}, "TxRawResult"),
    Plain("gettxout", "GetTxOutResult"), Plain("gettxout", "null"), Plain("help", "string"),
    Plain("invalidateblock", "null"), Plain("node", "null"), Plain("ping", "null"),
    Plain("reconsiderblock", "null"), H("searchrawtransactions", 2, {"0"}, "list of string"),
    H("searchrawtransactions", 2, {"1", "v", "nil"}, "list of SearchRawTransactionsResult"),
    Plain("sendrawtransaction", "string"), Plain("setgenerate", "null"),
    Plain("signmessagewithprivkey", "string"), Plain("stop", "string"), Plain("submitblock", "string"),
    Plain("submitblock", "null"), Plain("uptime", "int64"), Plain("validateaddress", "ValidateAddressChainResult"),
    Plain("verifychain", "bool"), Plain("verifymessage", "bool"), Plain("version", "map of VersionResult"),
    Plain("testmempoolaccept", "list of TestMempoolAcceptResult"),
    Plain("gettxspendingprevout", "list of GetTxSpendingPrevOutResult"),
    Plain("listexpiring", "ListExpiringResult"), Plain("getexpiryindexstats", "ExpiryIndexStatsResult"),
    Plain("getreapplan", "GetReapPlanResult"), Plain("getexpirycommitment", "GetExpiryCommitmentResult")}

\* The handlers a websocket client can call as well.
wsHandlers == {
    Plain("loadtxfilter", "null"), Plain("notifyblocks", "null"), Plain("notifynewtransactions", "null"),
    Plain("notifyreceived", "null"), Plain("notifyspent", "null"), Plain("session", "SessionResult"),
    Plain("stopnotifyblocks", "null"), Plain("stopnotifynewtransactions", "null"),
    Plain("stopnotifyspent", "null"), Plain("stopnotifyreceived", "null"), Plain("rescan", "null"),
    Plain("rescanblocks", "list of RescannedBlock")}

Handled(method) == \E h \in rpcHandlers \cup wsHandlers : h.method = method
Replies(method, fields) ==
    {h.type : h \in {x \in rpcHandlers \cup wsHandlers :
                        x.method = method /\ (x.i = 0 \/ fields[x.i] \in x.values)}}

\* The value a handler works with when an optional field is nil.
NilMeans == {
    <<"getblockheader", 2, "true">>, <<"getnetworkhashps", 1, "120">>, <<"getnetworkhashps", 2, "-1">>,
    <<"getnodeaddresses", 1, "1">>, <<"getrawmempool", 1, "false">>, <<"getrawtransaction", 2, "0">>,
    <<"gettxout", 3, "true">>, <<"searchrawtransactions", 2, "1">>, <<"searchrawtransactions", 3, "0">>,
    <<"searchrawtransactions", 4, "100">>, <<"searchrawtransactions", 5, "0">>,
    <<"searchrawtransactions", 6, "false">>, <<"setgenerate", 2, "-1">>, <<"verifychain", 1, "0">>,
    <<"verifychain", 2, "0">>, <<"notifynewtransactions", 1, "false">>}
Uses(method, i, x) ==
    IF x = "nil" /\ \E t \in NilMeans : t[1] = method /\ t[2] = i
    THEN (CHOOSE t \in NilMeans : t[1] = method /\ t[2] = i)[3] ELSE x

\* What encoding/json lets a reply be unmarshalled into: its own type, null
\* into anything a call takes (it leaves a zero value), a wider integer, and
\* the pairs of result types whose fields of one name have one type.
Fits(sent, wanted) ==
    \/ wanted = "ignored" \/ sent = wanted
    \/ sent = "null" /\ wanted \in {"GetTxOutResult", "null or string"}
    \/ sent = "string" /\ wanted = "null or string"
    \/ <<sent, wanted>> \in {
            <<"int32", "int64">>, <<"uint32", "int64">>,
            <<"InfoChainResult", "InfoWalletResult">>, <<"TxRawDecodeResult", "TxRawResult">>,
            <<"ValidateAddressChainResult", "ValidateAddressWalletResult">>,
            <<"GetBlockVerboseResult, rawtx", "GetBlockVerboseTxResult">>}

-----------------------------------------------------------------------------
\* One call from end to end, or one argument given to NewCmd

VARIABLES work, request, fields, reply
callVars == <<work, request, fields, reply>>

Optionals(arg) ==
    CASE arg = "?" -> {"nil", "v"} [] arg = "?mode" -> {"nil", "v", "proposal"} [] OTHER -> {arg}
Given(call) == {a \in [1..Len(call.args) -> {"nil", "v", "0", "1", "2", "true", "false", "proposal"}] :
                    \A i \in 1..Len(call.args) : a[i] \in Optionals(call.args[i])}

Types == [kind : {"int", "uint"}, bits : {WordBits \div 2, WordBits}, ptr : BOOLEAN]
         \cup [kind : {"float", "bool", "string", "struct"}, bits : {0}, ptr : BOOLEAN]
Values(type) ==
    CASE type.kind \in {"int", "uint"} -> {Number(n) : n \in MinOf(type)..MaxOf(type)}
      [] type.kind = "float" -> {Number(1)}
      [] type.kind = "bool" -> {[what |-> "bool", n |-> n] : n \in {0, 1}}
      [] type.kind = "string" -> {Number(n) : n \in -Pow2(WordBits)..Pow2(WordBits)}
             \cup {[what |-> x, n |-> 1] : x \in {"bool", "null", "json", "text"}}
      [] OTHER -> {[what |-> "json", n |-> 0]}

NoRequest == [method |-> "", params |-> <<>>]
CallInit ==
    /\ work \in {[at |-> "call", call |-> c, args |-> a] : c \in Calls, a \in {<<>>}}
               \cup {[at |-> "convert", src |-> t] : t \in Types}
    /\ request = NoRequest /\ fields = [ok |-> FALSE, fields |-> <<>>] /\ reply = "none"

\* The call builds its command and marshals it (SendCmd).
Marshal ==
    /\ work.at = "call"
    /\ \E a \in Given(work.call) :
          /\ work' = [work EXCEPT !.at = "sent", !.args = a]
          /\ request' = MarshalCmd(work.call.method, a)
    /\ UNCHANGED <<fields, reply>>

\* parseCmd on the server.
Parse ==
    /\ work.at = "sent" /\ work' = [work EXCEPT !.at = "parsed"]
    /\ fields' = UnmarshalCmd(request)
    /\ UNCHANGED <<request, reply>>

\* standardCmdResult: the handler, or the error of a method that is left to
\* the wallet, unimplemented or unknown.
Handle ==
    /\ work.at = "parsed" /\ work' = [work EXCEPT !.at = "replied"]
    /\ reply' \in (IF ~fields.ok \/ ~Handled(request.method) THEN {"error"}
                    ELSE Replies(request.method, fields.fields))
    /\ UNCHANGED <<request, fields>>

\* The future's Receive.
Receive ==
    /\ work.at = "replied" /\ reply # "panic"
    /\ work' = [work EXCEPT !.at = IF reply = "error" THEN "failed"
                                   ELSE IF Fits(reply, work.call.type) THEN "understood" ELSE "garbled"]
    /\ UNCHANGED <<request, fields, reply>>

Convert ==
    /\ work.at = "convert"
    /\ \E dest \in Types, v \in Values(work.src) :
          work' = [at |-> "converted", src |-> work.src, dest |-> dest, v |-> v,
                   got |-> assignField(dest, work.src, v)]
    /\ UNCHANGED <<request, fields, reply>>

CallNext == Marshal \/ Parse \/ Handle \/ Receive \/ Convert

-----------------------------------------------------------------------------
CallTypeOK ==
    /\ work.at \in {"call", "sent", "parsed", "replied", "understood", "garbled", "failed",
                    "convert", "converted"}
    /\ request.method = "" \/ Registered(request.method)
    /\ fields.ok \in BOOLEAN

\* A call of the client to a method the node handles is understood at both
\* ends: the server accepts the parameters the wrapper produced, its handler
\* does not fail on a nil it did not expect (handleGetBlock reads
\* *c.Verbosity unguarded), and what it replies for the verbosity the
\* wrapper asked for is of a type the wrapper's future can unmarshal.  (A
\* template proposal is answered with a string or null, which
\* GetBlockTemplate cannot read.)
RepliesParse ==
    work.at \in {"replied", "understood", "garbled", "failed"} /\ Handled(request.method)
        /\ work.args # <<"proposal">>
    => fields.ok /\ reply \notin {"error", "panic"} /\ work.at # "garbled"

\* What a handler works with is what the call meant: an argument that was
\* given arrives at its own position, and one that was left out has the
\* default the command declares, although makeParams drops only the trailing
\* nils, UnmarshalCmd fills in defaults only behind the last parameter, and
\* each handler has constants of its own for a nil field.
OmittedMeansDefault ==
    work.at = "parsed" /\ fields.ok /\ Handled(request.method)
    => \A i \in DOMAIN fields.fields :
          LET declared == methodToConcreteType(request.method).fields[i]
              used == Uses(request.method, i, fields.fields[i])
          IN  IF work.args[i] = "nil"
              THEN used = IF HasDefault(declared) THEN declared ELSE "nil"
              ELSE used = work.args[i]

\* NewCmd never changes the number it is given: an argument that is accepted
\* has the value it had, within the range of the field, and one is refused
\* only if the field cannot hold it.  (A string is first parsed at the width
\* of the machine word, which no field exceeds.)
ConvertedOrRefused ==
    work.at = "converted" /\ work.v.what = "number" /\ work.dest.kind \in {"int", "uint"}
        /\ work.src.kind \in {"int", "uint", "string"}
    => work.got = IF work.v.n \in MinOf(work.dest)..MaxOf(work.dest) THEN Set(work.v) ELSE Refused

\* What the comment on GetBlockVerboseTxResult says: with verbosity 2 the tx
\* field of the reply is an array of raw transactions.  handleGetBlock
\* fills the deprecated rawtx field instead and leaves tx empty.
TransactionsInTx ==
    work.at = "understood" /\ work.call.name = "GetBlockVerboseTx" => reply = "GetBlockVerboseTxResult"

-----------------------------------------------------------------------------
(***************************************************************************)
(* The notifications of the websocket server and what the client makes of   *)
(* them: btcjson's notification structs, marshalled by makeParams like any  *)
(* command, against handleNotification and the parse functions of           *)
(* rpcclient/notify.go.  A parameter is the JSON type of its value; "nil"   *)
(* is the block of a transaction that is not in one.                        *)
(***************************************************************************)

\* What the server puts into the fields of a notification.
Sends == {
    <<"blockconnected", <<"hash", "int32", "int64">>>>,
    <<"blockdisconnected", <<"hash", "int32", "int64">>>>,
    <<"filteredblockconnected", <<"int32", "header", "txs">>>>,
    <<"filteredblockdisconnected", <<"int32", "header">>>>,
    <<"recvtx", <<"tx", "block">>>>, <<"recvtx", <<"tx", "nil">>>>,
    <<"redeemingtx", <<"tx", "block">>>>, <<"redeemingtx", <<"tx", "nil">>>>,
    <<"relevanttxaccepted", <<"tx">>>>,
    <<"rescanfinished", <<"hash", "int32", "int64">>>>,
    <<"rescanprogress", <<"hash", "int32", "int64">>>>,
    <<"txaccepted", <<"hash", "amount">>>>, <<"txacceptedverbose", <<"rawtx">>>>}

\* What a wallet server sends.
WalletSends == {
    <<"accountbalance", <<"string", "amount", "bool">>>>, <<"btcdconnected", <<"bool">>>>,
    <<"walletlockstate", <<"bool">>>>, <<"newtx", <<"string", "details">>>>}

-----------------------------------------------------------------------------
\* The parsers: how many parameters are taken, and as what.

Parser(least, most, types) == [least |-> least, most |-> most, types |-> types]
Any == 9

parseChainNtfnParams == Parser(3, 3, <<"hash", "int32", "int64">>)
parseFilteredBlockConnectedParams == Parser(3, Any, <<"int32", "header", "txs">>)
parseFilteredBlockDisconnectedParams == Parser(2, Any, <<"int32", "header">>)
parseRelevantTxAcceptedParams == Parser(1, Any, <<"tx">>)

parseChainTxNtfnParams == Parser(1, 2, <<"tx", "block">>)
parseRescanProgressParams == Parser(3, 3, <<"hash", "int32", "int64">>)
parseTxAcceptedNtfnParams == Parser(2, 2, <<"hash", "amount">>)
parseTxAcceptedVerboseNtfnParams == Parser(1, 1, <<"rawtx">>)
parseBtcdConnectedNtfnParams == Parser(1, 1, <<"bool">>)
parseAccountBalanceNtfnParams == Parser(3, 3, <<"string", "amount", "bool">>)
parseWalletLockStateNtfnParams == Parser(2, 2, <<"string", "bool">>)

\* handleNotification: the parser and the callback of every method.
Dispatch == {
    <<"blockconnected", parseChainNtfnParams, "OnBlockConnected">>,
    <<"filteredblockconnected", parseFilteredBlockConnectedParams, "OnFilteredBlockConnected">>,
    <<"blockdisconnected", parseChainNtfnParams, "OnBlockDisconnected">>,
    <<"filteredblockdisconnected", parseFilteredBlockDisconnectedParams, "OnFilteredBlockDisconnected">>,
    <<"recvtx", parseChainTxNtfnParams, "OnRecvTx">>,
    <<"redeemingtx", parseChainTxNtfnParams, "OnRedeemingTx">>,
    <<"relevanttxaccepted", parseRelevantTxAcceptedParams, "OnRelevantTxAccepted">>,
    <<"rescanfinished", parseRescanProgressParams, "OnRescanFinished">>,
    <<"rescanprogress", parseRescanProgressParams, "OnRescanProgress">>}
DispatchTx == {
    <<"txaccepted", parseTxAcceptedNtfnParams, "OnTxAccepted">>,
    <<"txacceptedverbose", parseTxAcceptedVerboseNtfnParams, "OnTxAcceptedVerbose">>,
    <<"btcdconnected", parseBtcdConnectedNtfnParams, "OnBtcdConnected">>,
    <<"accountbalance", parseAccountBalanceNtfnParams, "OnAccountBalance">>,
    <<"walletlockstate", parseWalletLockStateNtfnParams, "OnWalletLockState">>}

Parses(p, params) ==
    /\ Len(params) \in p.least..p.most
    /\ \A i \in 1..Len(params) : i <= Len(p.types) => params[i] = p.types[i]

-----------------------------------------------------------------------------
VARIABLES note, noteSent, calledBack
noteVars == <<note, noteSent, calledBack>>

\* Which callbacks the client has set, by "all", "none" or only the one for
\* unknown notifications.
NoteInit ==
    /\ note \in [what : Sends \cup WalletSends, callbacks : {"all", "unknown", "none"}]
    /\ noteSent = [method |-> "", params |-> <<>>] /\ calledBack = [f |-> "none", params |-> <<>>]

SendNote ==
    /\ noteSent.method = ""
    /\ noteSent' = MarshalCmd(note.what[1], note.what[2])
    /\ UNCHANGED <<note, calledBack>>

handleNotification ==
    /\ noteSent.method # "" /\ calledBack.f = "none"
    /\ IF \E d \in Dispatch \cup DispatchTx : d[1] = noteSent.method
       THEN LET d == CHOOSE x \in Dispatch \cup DispatchTx : x[1] = noteSent.method
            IN  /\ note.callbacks = "all" /\ Parses(d[2], noteSent.params)
                /\ calledBack' = [f |-> d[3], params |-> noteSent.params]
       ELSE /\ note.callbacks # "none"
            /\ calledBack' = [f |-> "OnUnknownNotification", params |-> noteSent.params]
    /\ UNCHANGED <<note, noteSent>>

NoteNext == SendNote \/ handleNotification

Dropped == noteSent.method # "" /\ calledBack.f = "none" /\ ~ENABLED handleNotification

-----------------------------------------------------------------------------
NoteTypeOK == noteSent.method = "" \/ Registered(noteSent.method)

\* Every notification the node can send reaches the callback of its method,
\* if the client has set it, with as many values as the server gave: none is
\* dropped as "invalid" for the number or the types of its parameters, also
\* when the nil block of a recvtx or redeemingtx was left out on the way.
NotesDelivered ==
    note.callbacks = "all" /\ note.what \in Sends =>
        /\ ~Dropped
        /\ calledBack.f \notin {"none", "OnUnknownNotification"}
           => calledBack.params = SelectSeq(note.what[2], LAMBDA x : x # "nil")

\* What the comment on OnWalletLockState says: it is invoked when a wallet is
\* locked or unlocked.  The notification has one parameter, its parser asks
\* for two.
LockStateDelivered == note.callbacks = "all" /\ note.what[1] = "walletlockstate" => ~Dropped
=============================================================================
