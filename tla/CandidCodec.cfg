SPECIFICATION ContractSpec
CONSTANTS
    GroupBits = 2
    CountBits = 5
    FieldIds <- MCFieldIds
    Messages <- MCMessages
    Calls <- MCCalls
    Documents <- MCDocuments
    LabelHash <- MCLabelHash
    Renderings <- MCRenderings
    Unbindable <- MCUnbindable
INVARIANTS
    DecodesAsSpecified
    RoundTrips
    EncodesWhatIsValid
    BytesFollowTypes
    TypeDepthIsTheCompilers
    AcceptedIffSound
    LoadedDenotesItsTypes
    OmissionIsTaint
