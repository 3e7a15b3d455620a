------------------------------- MODULE Scope -------------------------------
(***************************************************************************)
(* The oscilloscopes (freemaster_scope.c): lists of variables a host       *)
(* configures once and then reads with one request.  SETSCOPE carries a    *)
(* sequence of operations, which take effect one after the other; when one *)
(* is refused the rest is skipped, and what came before it stays.          *)
(*                                                                         *)
(* An operation has the flags fits, its length byte stays inside the       *)
(* request, and exact, the fields decoded from it fill that length.        *)
(***************************************************************************)
EXTENDS Tsa

CONSTANTS
    ScopeCount,   \* FMSTR_USE_SCOPE
    MaxScopeVars  \* FMSTR_MAX_SCOPE_VARS

ASSUME ScopeAssumption == ScopeCount \in Nat \ {0} /\ MaxScopeVars \in Nat \ {0}

\* The operations of SETSCOPE, "OTHER" for a code that is not known.
Operations ==
    [code : {"CFGMEM"}, fits : BOOLEAN, varCnt : Nat]
        \cup [code : {"CFGVAR"}, fits : BOOLEAN, exact : BOOLEAN, index : Nat, addr : Nat, size : Nat]
        \cup [code : {"OTHER"}, fits : BOOLEAN]

NoVar == [addr |-> NULL, size |-> 0]
NoScope == [varCnt |-> 0, var |-> [i \in 0 .. MaxScopeVars - 1 |-> NoVar]]

\* FMSTR_InitScope.
InitScope == [i \in 0 .. ScopeCount - 1 |-> NoScope]

Setting(scope, status) == [scope |-> scope, status |-> status]

CfgMem(scope, op) ==
    IF op.varCnt > MaxScopeVars THEN Setting(scope, "INVSIZE")
    ELSE Setting([NoScope EXCEPT !.varCnt = op.varCnt], "OK")

\* Why a variable is refused, if it is.
VarStatus(scope, t, op) ==
    CASE ~op.exact                                      -> "INVSIZE"
      [] op.exact /\ op.index >= scope.varCnt           -> "INVBUFF"
      [] op.exact /\ op.index < scope.varCnt /\ op.size \notin {1, 2, 4, 8} -> "INVSIZE"
      [] OTHER -> IF CheckTsaSpace(t, op.addr, op.size, FALSE) THEN "OK" ELSE "EACCESS"

CfgVar(scope, t, op) ==
    LET status == VarStatus(scope, t, op)
    IN  Setting(IF status # "OK" THEN scope
                ELSE [scope EXCEPT !.var[op.index] = [addr |-> op.addr, size |-> op.size]], status)

Operation(setting, t, op) ==
    CASE setting.status # "OK" -> setting
      [] setting.status = "OK" /\ ~op.fits -> Setting(setting.scope, "INVSIZE")
      [] setting.status = "OK" /\ op.fits /\ op.code = "CFGMEM" -> CfgMem(setting.scope, op)
      [] setting.status = "OK" /\ op.fits /\ op.code = "CFGVAR" -> CfgVar(setting.scope, t, op)
      [] OTHER -> Setting(setting.scope, "INVCMD")

\* SETSCOPE of an existing scope: the scope afterwards and the status.
SetScope(scope, t, ops) ==
    LET after[n \in 0 .. Len(ops)] ==
            IF n = 0 THEN Setting(scope, "OK") ELSE Operation(after[n - 1], t, ops[n])
    IN  after[Len(ops)]

\* The blocks READSCOPE copies, in the order of their indices.
ScopeBlocks(scope) == [i \in 1 .. scope.varCnt |-> scope.var[i - 1]]

SizeOf(blocks) == FoldLeft(LAMBDA n, b : n + b.size, 0, blocks)

ReadScopeStatus(scope, maxOutSize) ==
    IF scope.varCnt = 0 THEN "NOTINIT"
    ELSE IF SizeOf(ScopeBlocks(scope)) > maxOutSize THEN "INVSIZE" ELSE "OK"
=============================================================================
