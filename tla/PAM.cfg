\* Three signers, a grace period of three seconds, one peer chain.
CONSTANTS
    GracePeriod = 3
    Key = {k1, k2, k3}
    NoKey = k0
    Chain = {peer}
    Emitter = {adapter}
    NoEmitter = e0
    Emitters = {adapter}
    Topic = {swap}
    NoTopic = t0
    Topics = {swap}
SPECIFICATION Spec
PROPERTIES SignerChangesOnNotice SignerNeverLost
