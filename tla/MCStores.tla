------------------------------ MODULE MCStores ------------------------------
EXTENDS Stores

MCKeys == {"s1", "s2", "s3", "one", "rainbow", "mine"}
MCBuiltins == <<"rainbow">>
MCFlagBitSet == {[key |-> "s1", val |-> "x"]}

=============================================================================
