\* PfqLang, round trip of serialize: the vector of a predicate, read back
\* from index 0, should give the predicate.
\* One predicate name, one function name, one argument, the
\* combinators "or" and "and", predicates with two levels of Pred2 and
\* computations with two levels of higher-order functions and >->.
CONSTANTS
  p = p
  f = f
  a = a
  PredNames = {p}
  FunNames = {f}
  CombNames = {"or", "and"}
  Args = {a}
  PredDepth = 2
  CompDepth = 2
SPECIFICATION Spec
INVARIANT SerializeRoundTrip
