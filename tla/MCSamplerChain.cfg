CONSTANT Configs <- MCConfigs

SPECIFICATION Spec

INVARIANT TypeOK
INVARIANT ExactlyOneSelector
INVARIANT MirostatExclusive
INVARIANT PenaltiesFirst

\* One construction per call: the behaviour ends once the chain is built.
CHECK_DEADLOCK FALSE
