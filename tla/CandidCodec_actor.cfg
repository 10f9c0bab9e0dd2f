SPECIFICATION ContractSpec
CONSTANTS
    GroupBits = 2
    CountBits = 5
    FieldIds <- MCFieldIds
    Messages <- MCNone
    Calls <- MCNone
    Documents <- MCActorKinds
    LabelHash <- MCLabelHash
    Renderings <- MCRenderings
    Unbindable <- MCUnbindable
INVARIANT AcceptedIsSound
