------------------------------ MODULE PfqLang ------------------------------
(***************************************************************************)
(* The expression language of the C++ user library (pfq-lang.hpp): terms  *)
(* built by the constructors predicate, computation and >>, their textual *)
(* form (show) and the serialization of predicates into the vector of     *)
(* FunDescr handed to the kernel, where a combinator entry names its      *)
(* operands by their indices in the vector.                               *)
(*                                                                         *)
(* The C++ terms are templates, one struct per shape; here a term is a    *)
(* record whose field kind names the struct.  Names and arguments are     *)
(* model values: show writes them as single tokens, and a Pred1 or Fun1   *)
(* argument is written as its pointer and size, one token per argument.   *)
(* show is a sequence of tokens, the blanks between them left out: the    *)
(* names are identifiers, so two strings are equal exactly when their     *)
(* token sequences are.                                                   *)
(***************************************************************************)
EXTENDS Integers, Sequences, FiniteSets

CONSTANTS
  PredNames,   \* names of in-kernel predicates
  FunNames,    \* names of in-kernel functions
  CombNames,   \* combinator names, a subset of {"or", "and", "xor"}
  Args,        \* argument values of Pred1 and Fun1
  PredDepth,   \* nesting of Pred2 in the predicates enumerated
  CompDepth    \* nesting of higher-order functions and >-> enumerated

NoArg == "null"   \* std::shared_ptr<void>() with size 0

-----------------------------------------------------------------------------
(* Terms and their constructors                                            *)

combinator(name) == name

predicate(name) == [kind |-> "Pred", name |-> name]
predicate1(name, arg) == [kind |-> "Pred1", name |-> name, arg |-> arg]
predicate2(c, left, right) ==
  [kind |-> "Pred2", comb |-> c, left |-> left, right |-> right]

computation(name) == [kind |-> "Fun", name |-> name]
computation1(name, arg) == [kind |-> "Fun1", name |-> name, arg |-> arg]
hcomputation(name, p) == [kind |-> "HFun", name |-> name, pred |-> p]
hcomputation1(name, p, c) ==
  [kind |-> "HFun1", name |-> name, pred |-> p, comp |-> c]
hcomputation2(name, p, c1, c2) ==
  [kind |-> "HFun2", name |-> name, pred |-> p, comp1 |-> c1, comp2 |-> c2]
kleisli(c1, c2) == [kind |-> "Comp", comp1 |-> c1, comp2 |-> c2]   \* c1 >> c2

\* The predicates is_predicate admits, up to d nested Pred2.
RECURSIVE Predicates(_)
Predicates(d) ==
  LET leaves == {predicate(n) : n \in PredNames}
                  \cup {predicate1(n, a) : n \in PredNames, a \in Args}
  IN  IF d = 0 THEN leaves
      ELSE LET sub == Predicates(d - 1)
           IN  sub \cup {predicate2(combinator(c), l, r) :
                           c \in CombNames, l \in sub, r \in sub}

\* The computations is_computation admits, up to d levels; the predicate
\* of a higher-order function is a leaf predicate.
RECURSIVE Computations(_)
Computations(d) ==
  LET ps == Predicates(0)
  IN  IF d = 0
      THEN {computation(n) : n \in FunNames}
             \cup {computation1(n, a) : n \in FunNames, a \in Args}
      ELSE LET sub == Computations(d - 1)
           IN  sub \cup {hcomputation(n, p) : n \in FunNames, p \in ps}
                   \cup {hcomputation1(n, p, c) : n \in FunNames, p \in ps, c \in sub}
                   \cup {hcomputation2(n, p, c1, c2) :
                           n \in FunNames, p \in ps, c1 \in sub, c2 \in sub}
                   \cup {kleisli(c1, c2) : c1 \in sub, c2 \in sub}

Preds == Predicates(PredDepth)
Comps == Computations(CompDepth)

-----------------------------------------------------------------------------
(* show                                                                    *)

ShowComb(c) == CASE c = "or"  -> "|"
                 [] c = "and" -> "&"
                 [] c = "xor" -> "^"

RECURSIVE show(_)

ShowPred(t)  == <<t.name>>
ShowPred1(t) == <<"(", t.name, t.arg, ")">>
ShowPred2(t) == <<"(">> \o show(t.left) \o <<ShowComb(t.comb)>>
                  \o show(t.right) \o <<")">>
ShowFun(t)   == <<t.name>>
ShowFun1(t)  == <<"(", t.name, t.arg, ")">>
ShowHFun(t)  == <<"(", t.name>> \o show(t.pred) \o <<")">>
ShowHFun1(t) == <<"(", t.name>> \o show(t.pred) \o show(t.comp) \o <<")">>
ShowHFun2(t) == <<"(", t.name>> \o show(t.pred) \o show(t.comp1)
                  \o show(t.comp2) \o <<")">>

\* Mutation of ShowComp: the two sides juxtaposed, without " >-> ".
ShowCompNoArrow(t) == show(t.comp1) \o show(t.comp2)

ShowComp(t)  == show(t.comp1) \o <<">->">> \o show(t.comp2)

\* Overload resolution on the struct of the term.
show(t) == CASE t.kind = "Pred"  -> ShowPred(t)
             [] t.kind = "Pred1" -> ShowPred1(t)
             [] t.kind = "Pred2" -> ShowPred2(t)
             [] t.kind = "Fun"   -> ShowFun(t)
             [] t.kind = "Fun1"  -> ShowFun1(t)
             [] t.kind = "HFun"  -> ShowHFun(t)
             [] t.kind = "HFun1" -> ShowHFun1(t)
             [] t.kind = "HFun2" -> ShowHFun2(t)
             [] t.kind = "Comp"  -> ShowComp(t)

-----------------------------------------------------------------------------
(* serialize                                                               *)

\* FunDescr { type, symbol, arg_ptr / arg_size, left, right }
FunDescr(type, symbol, arg) ==
  [type |-> type, symbol |-> symbol, arg |-> arg, left |-> -1, right |-> -1]

SerializeComb(n, c) == <<<<FunDescr("comb", c, NoArg)>>, n + 1>>
SerializePred(n, p)  == <<<<FunDescr("pred", p.name, NoArg)>>, n + 1>>
SerializePred1(n, p) == <<<<FunDescr("pred", p.name, p.arg)>>, n + 1>>

\* Mutation of LinkComb: both operands linked to the left one.
LinkCombSame(ret, n1, n2) == [ret EXCEPT ![1].left = n1, ![1].right = n1]
\* Mutation of LinkComb: the right operand linked one entry too far.
LinkCombOffByOne(ret, n1, n2) ==
  [ret EXCEPT ![1].left = n1, ![1].right = n2 + 1]

\* ret[0].left = n1; ret[0].right = n2;
LinkComb(ret, n1, n2) == [ret EXCEPT ![1].left = n1, ![1].right = n2]

\* serialize(n, term) returns the descriptors of term, which start at index
\* n, and the next free index.  The Pred2 case serializes p.left_ in place
\* of p.right_, as the code does.
RECURSIVE serialize(_, _)
SerializePred2(n, p) ==
  LET r0 == SerializeComb(n, p.comb)
      l  == serialize(r0[2], p.left)
      r  == serialize(l[2], p.left)
  IN  <<LinkComb(r0[1], r0[2], l[2]) \o l[1] \o r[1], r[2]>>

serialize(n, p) == CASE p.kind = "Pred"  -> SerializePred(n, p)
                     [] p.kind = "Pred1" -> SerializePred1(n, p)
                     [] p.kind = "Pred2" -> SerializePred2(n, p)

-----------------------------------------------------------------------------
(* The library serializing one term                                        *)

VARIABLES
  term,     \* the term built with the constructors
  descrs,   \* the std::vector<FunDescr> serialize returned
  next      \* the index it returned, -1 before the call

vars == <<term, descrs, next>>

Init ==
  /\ term \in Preds \cup Comps
  /\ descrs = <<>>
  /\ next = -1

\* std::tie(descrs, next) = serialize(0, term), for a predicate: the
\* computations of this header have no serialize.
Serialize ==
  /\ next = -1
  /\ term \in Preds
  /\ LET s == serialize(0, term)
     IN  descrs' = s[1] /\ next' = s[2]
  /\ UNCHANGED term

\* The term is serialized, or is a computation, and nothing is left to do.
Done ==
  /\ next # -1 \/ term \in Comps
  /\ UNCHANGED vars

Next == Serialize \/ Done

Spec == Init /\ [][Next]_vars

-----------------------------------------------------------------------------
(* Reference definitions and properties                                    *)

\* How a reader of the vector rebuilds the predicate at index i: a
\* combinator entry applies its symbol to the entries at left and right.
RECURSIVE Decode(_, _)
Decode(v, i) ==
  LET d == v[i + 1]
  IN  CASE d.type = "comb" ->
             predicate2(d.symbol, Decode(v, d.left), Decode(v, d.right))
        [] d.arg = NoArg -> predicate(d.symbol)
        [] OTHER         -> predicate1(d.symbol, d.arg)

\* The term with every chain of >-> flattened: Kleisli composition is
\* associative, so (a >-> b) >-> c and a >-> (b >-> c) are one computation.
RECURSIVE Norm(_), Chain(_)
Chain(t) == IF t.kind = "Comp" THEN Chain(t.comp1) \o Chain(t.comp2)
                               ELSE <<Norm(t)>>
Norm(t) ==
  CASE t.kind = "Comp"  -> [kind |-> "Chain", items |-> Chain(t)]
    [] t.kind = "HFun1" -> [t EXCEPT !.comp = Norm(t.comp)]
    [] t.kind = "HFun2" -> [t EXCEPT !.comp1 = Norm(t.comp1),
                                     !.comp2 = Norm(t.comp2)]
    [] OTHER            -> t

Index == -1 .. Len(descrs) - 1

\* The entries whose left or right names index i.
LinksTo(i) == {j \in DOMAIN descrs : i \in {descrs[j].left, descrs[j].right}}

TypeOK ==
  /\ term \in Preds \cup Comps
  /\ descrs \in Seq([type : {"comb", "pred"}, symbol : PredNames \cup CombNames,
                     arg : Args \cup {NoArg}, left : Index, right : Index])
  /\ next \in -1 .. Len(descrs)

\* The vector serialize returns is a tree laid out in preorder: the call
\* returns the index after its last entry; a combinator entry, and only
\* one, links its left operand right after itself and its right operand
\* further on; every entry but the root is linked exactly once.  This is
\* what the kernel needs to walk the vector without looping or reading
\* past its end.
SerializeLinked ==
  next # -1 =>
    /\ next = Len(descrs)
    /\ \A j \in DOMAIN descrs :
         IF descrs[j].type = "comb"
         THEN descrs[j].left = j /\ descrs[j].right > descrs[j].left
         ELSE descrs[j].left = -1 /\ descrs[j].right = -1
    /\ \A i \in 1 .. Len(descrs) - 1 : Cardinality(LinksTo(i)) = 1

\* show tells terms apart: two terms of the same sort with the same text
\* are the same term, up to the grouping of >->, which show does not
\* parenthesize.  Text is how a term is logged and compared by users.
ShowUnambiguous ==
  \A t \in (IF term \in Preds THEN Preds ELSE Comps) :
    show(t) = show(term) => Norm(t) = Norm(term)

\* The vector serialize builds for a predicate stands for that predicate:
\* read back from index 0 it gives the term.
SerializeRoundTrip == next # -1 => Decode(descrs, 0) = term

=============================================================================
